---- MODULE Spec2Model ----
(***************************************************************************)
(* Procedural morph-target synthesis of ProducerTour/producer-tour-game.   *)
(*                                                                         *)
(* The model follows scripts/blender/add_morphs_to_existing.py             *)
(* (process_model: import, clear shape keys, create_face_morphs,           *)
(* create_body_morphs) and the older scripts/blender/add_morph_targets.py. *)
(* Python floats are modelled as exact rationals <<numerator,              *)
(* denominator>> in lowest terms, so that equalities such as "distance     *)
(* exactly equal to the radius" are decided exactly.                       *)
(***************************************************************************)
EXTENDS Integers, Sequences, FiniteSets, TLC

(***************************************************************************)
(* Exact rational arithmetic (stand-in for Python float arithmetic).       *)
(***************************************************************************)
RECURSIVE GCD(_, _)
GCD(a, b) ==
    IF b = 0 THEN a ELSE GCD(b, a % b)

IAbs(n) ==
    IF n < 0 THEN -n ELSE n

R(n, d) ==
    LET g == GCD(IAbs(n), IAbs(d))
        s == IF d < 0 THEN -1 ELSE 1
    IN  <<(s * n) \div g, (s * d) \div g>>

Zero ==
    <<0, 1>>

One ==
    <<1, 1>>

RNeg(a) ==
    <<-a[1], a[2]>>

RAdd(a, b) ==
    LET g == GCD(a[2], b[2])
    IN  R(a[1] * (b[2] \div g) + b[1] * (a[2] \div g), (a[2] \div g) * b[2])

RSub(a, b) ==
    RAdd(a, RNeg(b))

RMul(a, b) ==
    LET g1 == GCD(IAbs(a[1]), b[2])
        g2 == GCD(IAbs(b[1]), a[2])
    IN  <<(a[1] \div g1) * (b[1] \div g2), (a[2] \div g2) * (b[2] \div g1)>>

(* a / b; dividing by 0.0 raises ZeroDivisionError, which no arithmetic    *)
(* accepts as an operand                                                   *)
RDiv(a, b) ==
    IF b = <<0, 1>>
    THEN "ZeroDivisionError"
    ELSE RMul(a, IF b[1] < 0 THEN <<-b[2], -b[1]>> ELSE <<b[2], b[1]>>)

RLt(a, b) ==
    LET g == GCD(a[2], b[2])
    IN  a[1] * (b[2] \div g) < b[1] * (a[2] \div g)

RGt(a, b) ==
    RLt(b, a)

RLe(a, b) ==
    ~RLt(b, a)

RAbs(a) ==
    <<IAbs(a[1]), a[2]>>

RMax(a, b) ==
    IF RLt(a, b) THEN b ELSE a

RMinOf(S) ==
    CHOOSE a \in S : \A b \in S : RLe(a, b)

RMaxOf(S) ==
    CHOOSE a \in S : \A b \in S : RLe(b, a)

(* Vector((0, 0, 0)) and Vector addition / scaling *)
ZeroVec ==
    <<Zero, Zero, Zero>>

VAdd(u, v) ==
    <<RAdd(u[1], v[1]), RAdd(u[2], v[2]), RAdd(u[3], v[3])>>

VSub(u, v) ==
    <<RSub(u[1], v[1]), RSub(u[2], v[2]), RSub(u[3], v[3])>>

VScale(k, v) ==
    <<RMul(k, v[1]), RMul(k, v[2]), RMul(k, v[3])>>

(* float('inf') and float('-inf'), and the results of arithmetic on them *)
(* (encoded with a zero denominator)                                       *)
PosInf ==
    <<1, 0>>

NegInf ==
    <<-1, 0>>

NaN ==
    <<0, 0>>

IsNum(a) ==
    a[2] # 0

(* a > b on floats that may be -inf or nan: any comparison with nan is     *)
(* False, -inf is greater than nothing, a number is greater than -inf      *)
FGt(a, b) ==
    IF a = NaN \/ b = NaN THEN FALSE
    ELSE IF a = NegInf \/ b = PosInf THEN FALSE
    ELSE IF b = NegInf \/ a = PosInf THEN TRUE
    ELSE RGt(a, b)

(***************************************************************************)
(* Bounds of the model and the meshes the scripts are run on.              *)
(***************************************************************************)
(* ring heights: depth below the top of the mesh in steps of 10/10000 of   *)
(* the mesh height                                                         *)
MaxHeightStep ==
    125

(* the extents of the small boxes are 0 .. MaxBoxDim *)
MaxBoxDim ==
    2

RingDepths ==
    {10 * i : i \in 0..MaxHeightStep} \cup {654, 846, 2250, 3250, 5000}

(* [up axis, height, x of the centerline] of the humanoid meshes *)
Shapes ==
    { [up |-> "Z", H |-> R(2, 1),   cx |-> Zero],
      [up |-> "Y", H |-> R(2, 1),   cx |-> Zero],
      [up |-> "Z", H |-> R(200, 1), cx |-> Zero],
      [up |-> "Z", H |-> R(2, 1),   cx |-> R(1, 20)] }

(* (lateral, depth, height) to a Blender coordinate triple *)
Oriented(s, x, depth, h) ==
    IF s.up = "Y" THEN <<x, h, depth>> ELSE <<x, depth, h>>

(* A humanoid stand-in: two feet half a height apart, the top of the head  *)
(* on the centerline, and a ring of vertices at depth d below the top,     *)
(* mirrored about the centerline.                                          *)
RingMesh(s, d) ==
    LET H  == s.H
        hw == RMul(H, R(1, 4))
        dp == RMul(H, R(1, 8))
        rh == RSub(H, RMul(H, R(d, 10000)))
        ry == RMul(H, R(21, 200))
        w(n) == RMul(H, R(n, 10000))
    IN  << Oriented(s, RSub(s.cx, hw), RNeg(dp), Zero),
           Oriented(s, RAdd(s.cx, hw), RNeg(dp), Zero),
           Oriented(s, s.cx, dp, H),
           Oriented(s, s.cx, ry, rh),
           Oriented(s, RAdd(s.cx, w(60)), ry, rh),
           Oriented(s, RSub(s.cx, w(60)), ry, rh),
           Oriented(s, RAdd(s.cx, w(100)), ry, rh),
           Oriented(s, RSub(s.cx, w(100)), ry, rh),
           Oriented(s, RAdd(s.cx, w(200)), ry, rh),
           Oriented(s, RSub(s.cx, w(200)), ry, rh),
           Oriented(s, RAdd(s.cx, w(300)), ry, rh),
           Oriented(s, RSub(s.cx, w(300)), ry, rh),
           Oriented(s, RAdd(s.cx, w(2000)), ry, rh),
           Oriented(s, RSub(s.cx, w(2000)), ry, rh) >>

RingMeshes ==
    {RingMesh(s, d) : s \in Shapes, d \in RingDepths}

(* two-vertex boxes: every combination of small extents (ties and zero    *)
(* extents included)                                                       *)
BoxMesh(dx, dy, dz) ==
    << <<Zero, Zero, Zero>>, <<dx, dy, dz>> >>

BoxDims ==
    {R(n, 1) : n \in 0..MaxBoxDim}

BoxMeshes ==
    {BoxMesh(dx, dy, dz) : dx \in BoxDims, dy \in BoxDims, dz \in BoxDims}

(* boxes of unit width whose height, along Z or along Y, is one of the     *)
(* documented unit cases, or very small                                    *)
UnitHeights ==
    {R(1, 50), R(9, 5), R(50, 1), R(51, 1), R(180, 1)}

UnitMeshes ==
    {BoxMesh(One, One, h) : h \in UnitHeights} \cup {BoxMesh(One, h, One) : h \in UnitHeights}

(* a cylinder of radius r and height h about the vertical line through     *)
(* (cx, 0): three rings of six vertices with rational coordinates          *)
CylinderMesh(cx, r, h) ==
    LET circle == << <<One, Zero>>, <<RNeg(One), Zero>>, <<Zero, One>>, <<Zero, RNeg(One)>>,
                     <<R(3, 5), R(4, 5)>>, <<R(-3, 5), R(-4, 5)>> >>
        levels == <<Zero, RDiv(h, R(2, 1)), h>>
    IN  [q \in 1..18 |->
            LET p == circle[((q - 1) % 6) + 1]
                z == levels[((q - 1) \div 6) + 1]
            IN  <<RAdd(cx, RMul(r, p[1])), RMul(r, p[2]), z>>]

CylinderMeshes ==
    {CylinderMesh(Zero, R(1, 2), R(2, 1)), CylinderMesh(One, R(1, 4), R(2, 1))}

Meshes ==
    RingMeshes \cup BoxMeshes \cup UnitMeshes \cup CylinderMeshes \cup {<<>>}

(***************************************************************************)
(* add_morphs_to_existing.py: bounds, axis and unit detection, landmarks.  *)
(***************************************************************************)
Coords(vs, c) ==
    {vs[k][c] : k \in DOMAIN vs}

(* get_mesh_bounds: componentwise min and max, +inf / -inf when the mesh   *)
(* has no vertex                                                           *)
get_mesh_bounds(vs) ==
    [ min_co |-> [c \in 1..3 |-> IF vs = <<>> THEN PosInf ELSE RMinOf(Coords(vs, c))],
      max_co |-> [c \in 1..3 |-> IF vs = <<>> THEN NegInf ELSE RMaxOf(Coords(vs, c))] ]

(* max_co[c] - min_co[c]; -inf - inf = -inf *)
Extent(b, c) ==
    IF IsNum(b.max_co[c]) THEN RSub(b.max_co[c], b.min_co[c]) ELSE NegInf

(* (min + max) / 2; inf + -inf = nan *)
Center(b, c) ==
    IF IsNum(b.max_co[c]) THEN RDiv(RAdd(b.min_co[c], b.max_co[c]), R(2, 1)) ELSE NaN

(* x * k and x - y on floats that may be -inf or nan (k > 0);              *)
(* -inf - (-inf) = nan                                                     *)
FScale(x, k) ==
    IF IsNum(x) THEN RMul(x, k) ELSE x

FSub(x, y) ==
    IF IsNum(x) /\ IsNum(y) THEN RSub(x, y) ELSE NaN

(* a >= b on floats *)
FGe(a, b) ==
    IF a = NaN \/ b = NaN THEN FALSE ELSE a = b \/ FGt(a, b)

(* variant: a tie between Y and Z counts as Y-up *)
is_y_up_tie(dim_x, dim_y, dim_z) ==
    FGe(dim_y, dim_z) /\ FGt(dim_y, dim_x)

(* if dim_y > dim_z and dim_y > dim_x *)
is_y_up(dim_x, dim_y, dim_z) ==
    FGt(dim_y, dim_z) /\ FGt(dim_y, dim_x)

(* variant: a height of exactly 50 counts as centimeters *)
is_cm_closed(mesh_height) ==
    FGe(mesh_height, R(50, 1))

(* if mesh_height > 50 *)
is_cm(mesh_height) ==
    FGt(mesh_height, R(50, 1))

(* The locals that create_face_morphs computes once, before its loops.     *)
(* variant: the head is taken as 9% of the body height *)
face_locals_short_head(vs) ==
    LET b     == get_mesh_bounds(vs)
        dim_x == Extent(b, 1)
        dim_y == Extent(b, 2)
        dim_z == Extent(b, 3)
        yup   == is_y_up(dim_x, dim_y, dim_z)
        mesh_height == IF yup THEN dim_y ELSE dim_z
        head_top    == IF yup THEN b.max_co[2] ELSE b.max_co[3]
        face_height == FScale(mesh_height, R(10, 100))
        face_width  == FScale(face_height, R(80, 100))
        mark(k)     == FSub(head_top, FScale(face_height, k))
    IN  [ up_axis      |-> IF yup THEN "Y" ELSE "Z",
          mesh_height  |-> mesh_height,
          mesh_width   |-> dim_x,
          mesh_depth   |-> IF yup THEN dim_z ELSE dim_y,
          center_x     |-> Center(b, 1),
          center_depth |-> IF yup THEN Center(b, 3) ELSE Center(b, 2),
          head_top     |-> head_top,
          unit         |-> IF is_cm(mesh_height) THEN "cm" ELSE "m",
          scale_factor |-> IF is_cm(mesh_height) THEN R(1, 1) ELSE R(100, 1),
          head_base    |-> FSub(head_top, FScale(mesh_height, R(90, 1000))),
          face_height  |-> face_height,
          forehead_height |-> mark(R(15, 100)),
          eyebrow_height  |-> mark(R(25, 100)),
          eye_height      |-> mark(R(35, 100)),
          cheek_height    |-> mark(R(50, 100)),
          nose_height     |-> mark(R(60, 100)),
          mouth_height    |-> mark(R(75, 100)),
          chin_height     |-> mark(R(95, 100)),
          base_offset  |-> FScale(face_height, R(15, 1000)),
          face_width   |-> face_width,
          eye_zone_h   |-> FScale(face_height, R(20, 100)),
          eye_zone_w   |-> FScale(face_width, R(40, 100)),
          nose_zone_w  |-> FScale(face_width, R(20, 100)),
          mouth_zone_w |-> FScale(face_width, R(30, 100)) ]

face_locals(vs) ==
    LET b     == get_mesh_bounds(vs)
        dim_x == Extent(b, 1)
        dim_y == Extent(b, 2)
        dim_z == Extent(b, 3)
        yup   == is_y_up(dim_x, dim_y, dim_z)
        mesh_height == IF yup THEN dim_y ELSE dim_z
        head_top    == IF yup THEN b.max_co[2] ELSE b.max_co[3]
        face_height == FScale(mesh_height, R(10, 100))
        face_width  == FScale(face_height, R(80, 100))
        mark(k)     == FSub(head_top, FScale(face_height, k))
    IN  [ up_axis      |-> IF yup THEN "Y" ELSE "Z",
          mesh_height  |-> mesh_height,
          mesh_width   |-> dim_x,
          mesh_depth   |-> IF yup THEN dim_z ELSE dim_y,
          center_x     |-> Center(b, 1),
          center_depth |-> IF yup THEN Center(b, 3) ELSE Center(b, 2),
          head_top     |-> head_top,
          unit         |-> IF is_cm(mesh_height) THEN "cm" ELSE "m",
          scale_factor |-> IF is_cm(mesh_height) THEN R(1, 1) ELSE R(100, 1),
          head_base    |-> FSub(head_top, FScale(mesh_height, R(125, 1000))),
          face_height  |-> face_height,
          forehead_height |-> mark(R(15, 100)),
          eyebrow_height  |-> mark(R(25, 100)),
          eye_height      |-> mark(R(35, 100)),
          cheek_height    |-> mark(R(50, 100)),
          nose_height     |-> mark(R(60, 100)),
          mouth_height    |-> mark(R(75, 100)),
          chin_height     |-> mark(R(95, 100)),
          base_offset  |-> FScale(face_height, R(15, 1000)),
          face_width   |-> face_width,
          eye_zone_h   |-> FScale(face_height, R(20, 100)),
          eye_zone_w   |-> FScale(face_width, R(40, 100)),
          nose_zone_w  |-> FScale(face_width, R(20, 100)),
          mouth_zone_w |-> FScale(face_width, R(30, 100)) ]

get_height(a, v) ==
    IF a.up_axis = "Y" THEN v[2] ELSE v[3]

get_width(v) ==
    RAbs(v[1])

get_depth(a, v) ==
    IF a.up_axis = "Y" THEN v[3] ELSE v[2]

make_offset(a, dx, dy_depth, dz_height) ==
    IF a.up_axis = "Y" THEN <<dx, dz_height, dy_depth>> ELSE <<dx, dy_depth, dz_height>>

(* direction = 1 if v.co.x > center_x else -1 *)
direction(a, v) ==
    IF RGt(v[1], a.center_x) THEN One ELSE RNeg(One)

(* the dict built by one "for i, v in enumerate(mesh.vertices)" loop *)
Dict(vs, In(_), Off(_)) ==
    [i \in {j \in DOMAIN vs : In(j)} |-> Off(i)]

(* base * (1 - dh / zone) *)
Falloff(dh, zone) ==
    RSub(One, RDiv(dh, zone))

Mul3(a, b, c) ==
    RMul(RMul(a, b), c)

(* ============== EYES (6 morphs) ============== *)
(* variant: the eye band is closed, "dh <= eye_zone_h" *)
eye_offsets_closed(vs, a) ==
    LET dh(i) == RAbs(RSub(get_height(a, vs[i]), a.eye_height))
        In(i) == RLe(dh(i), a.eye_zone_h) /\ RLt(get_width(vs[i]), a.eye_zone_w)
        factor(i) == RMul(a.base_offset, Falloff(dh(i), a.eye_zone_h))
    IN  Dict(vs, In, LAMBDA i : make_offset(a, Zero, Zero, factor(i)))

eye_offsets(vs, a) ==
    LET dh(i) == RAbs(RSub(get_height(a, vs[i]), a.eye_height))
        In(i) == RLt(dh(i), a.eye_zone_h) /\ RLt(get_width(vs[i]), a.eye_zone_w)
        factor(i) == RMul(a.base_offset, Falloff(dh(i), a.eye_zone_h))
    IN  Dict(vs, In, LAMBDA i : make_offset(a, Zero, Zero, factor(i)))

eye_spacing_offsets(vs, a) ==
    LET inner_limit == RMul(a.face_width, R(10, 100))
        dh(i) == RAbs(RSub(get_height(a, vs[i]), a.eye_height))
        vw(i) == get_width(vs[i])
        In(i) == RLt(dh(i), a.eye_zone_h) /\ RGt(vw(i), inner_limit) /\ RLt(vw(i), a.eye_zone_w)
        factor(i) == Mul3(a.base_offset, R(7, 10), Falloff(dh(i), a.eye_zone_h))
    IN  Dict(vs, In, LAMBDA i : make_offset(a, RMul(direction(a, vs[i]), factor(i)), Zero, Zero))

eye_tilt_offsets(vs, a) ==
    LET inner_eye == RMul(a.face_width, R(15, 100))
        outer_eye == RMul(a.face_width, R(45, 100))
        zone  == RMul(a.eye_zone_h, R(8, 10))
        dh(i) == RAbs(RSub(get_height(a, vs[i]), a.eye_height))
        vw(i) == get_width(vs[i])
        In(i) == RLt(dh(i), zone) /\ RGt(vw(i), inner_eye) /\ RLt(vw(i), outer_eye)
        outer_factor(i) == RDiv(RSub(vw(i), inner_eye), RSub(outer_eye, inner_eye))
        factor(i) == Mul3(a.base_offset, outer_factor(i), Falloff(dh(i), zone))
    IN  Dict(vs, In, LAMBDA i : make_offset(a, Zero, Zero, factor(i)))

eye_depth_offsets(vs, a) ==
    LET inner_limit == RMul(a.face_width, R(10, 100))
        eye_width == RMul(a.face_width, R(40, 100))
        zone  == RMul(a.eye_zone_h, R(9, 10))
        dh(i) == RAbs(RSub(get_height(a, vs[i]), a.eye_height))
        vw(i) == get_width(vs[i])
        In(i) == RLt(dh(i), zone) /\ RGt(vw(i), inner_limit) /\ RLt(vw(i), eye_width)
        factor(i) == Mul3(a.base_offset, R(13, 10), Falloff(dh(i), zone))
    IN  Dict(vs, In, LAMBDA i : make_offset(a, Zero, RNeg(factor(i)), Zero))

upper_eyelid_offsets(vs, a) ==
    LET inner_limit == RMul(a.face_width, R(10, 100))
        eye_width == RMul(a.face_width, R(40, 100))
        upper_lid_height == RAdd(a.eye_height, RMul(a.face_height, R(4, 100)))
        eyelid_zone == RMul(a.face_height, R(8, 100))
        dh(i) == RAbs(RSub(get_height(a, vs[i]), upper_lid_height))
        vw(i) == get_width(vs[i])
        In(i) == RLt(dh(i), eyelid_zone) /\ RGt(vw(i), inner_limit) /\ RLt(vw(i), eye_width)
        factor(i) == RMul(a.base_offset, Falloff(dh(i), eyelid_zone))
    IN  Dict(vs, In, LAMBDA i : make_offset(a, Zero, Zero, RNeg(factor(i))))

lower_eyelid_offsets(vs, a) ==
    LET inner_limit == RMul(a.face_width, R(10, 100))
        eye_width == RMul(a.face_width, R(40, 100))
        lower_lid_height == RSub(a.eye_height, RMul(a.face_height, R(4, 100)))
        eyelid_zone == RMul(a.face_height, R(8, 100))
        dh(i) == RAbs(RSub(get_height(a, vs[i]), lower_lid_height))
        vw(i) == get_width(vs[i])
        In(i) == RLt(dh(i), eyelid_zone) /\ RGt(vw(i), inner_limit) /\ RLt(vw(i), eye_width)
        factor(i) == Mul3(a.base_offset, R(7, 10), Falloff(dh(i), eyelid_zone))
    IN  Dict(vs, In, LAMBDA i : make_offset(a, Zero, RMul(RNeg(factor(i)), R(5, 10)), RNeg(factor(i))))

(* ============== EYEBROWS (2 morphs) ============== *)
eyebrow_height_offsets(vs, a) ==
    LET brow_zone  == RMul(a.face_height, R(12, 100))
        brow_inner == RMul(a.face_width, R(10, 100))
        brow_outer == RMul(a.face_width, R(45, 100))
        dh(i) == RAbs(RSub(get_height(a, vs[i]), a.eyebrow_height))
        vw(i) == get_width(vs[i])
        In(i) == RLt(dh(i), brow_zone) /\ RGt(vw(i), brow_inner) /\ RLt(vw(i), brow_outer)
        factor(i) == Mul3(a.base_offset, R(13, 10), Falloff(dh(i), brow_zone))
    IN  Dict(vs, In, LAMBDA i : make_offset(a, Zero, Zero, factor(i)))

eyebrow_arch_offsets(vs, a) ==
    LET brow_zone  == RMul(a.face_height, R(12, 100))
        brow_inner == RMul(a.face_width, R(10, 100))
        brow_outer == RMul(a.face_width, R(45, 100))
        brow_mid   == RDiv(RAdd(brow_inner, brow_outer), R(2, 1))
        dh(i) == RAbs(RSub(get_height(a, vs[i]), a.eyebrow_height))
        vw(i) == get_width(vs[i])
        In(i) == RLt(dh(i), brow_zone) /\ RGt(vw(i), brow_inner) /\ RLt(vw(i), brow_outer)
        arch_factor(i) == RSub(One, RAbs(RDiv(RSub(vw(i), brow_mid), RSub(brow_outer, brow_mid))))
        factor(i) == Mul3(a.base_offset, arch_factor(i), Falloff(dh(i), brow_zone))
    IN  Dict(vs, In, LAMBDA i : make_offset(a, Zero, Zero, factor(i)))

(* ============== NOSE (6 morphs) ============== *)
nose_offsets(vs, a) ==
    LET nose_zone_h == RMul(a.face_height, R(15, 100))
        nose_width_zone == RMul(a.face_width, R(20, 100))
        dh(i) == RAbs(RSub(get_height(a, vs[i]), a.nose_height))
        vw(i) == get_width(vs[i])
        In(i) == RLt(dh(i), nose_zone_h) /\ RLt(vw(i), nose_width_zone)
        factor(i) == RMul(Mul3(RDiv(vw(i), nose_width_zone), a.base_offset, R(15, 10)),
                          Falloff(dh(i), nose_zone_h))
    IN  Dict(vs, In, LAMBDA i : make_offset(a, RMul(direction(a, vs[i]), factor(i)), Zero, Zero))

nose_length_offsets(vs, a) ==
    LET nose_zone_h == RMul(a.face_height, R(15, 100))
        nose_width_zone == RMul(a.face_width, R(20, 100))
        zone  == RMul(nose_zone_h, R(12, 10))
        dh(i) == RAbs(RSub(get_height(a, vs[i]), a.nose_height))
        vw(i) == get_width(vs[i])
        In(i) == RLt(dh(i), zone) /\ RLt(vw(i), RMul(nose_width_zone, R(8, 10)))
        factor(i) == Mul3(Falloff(dh(i), zone), a.base_offset, R(13, 10))
    IN  Dict(vs, In, LAMBDA i : make_offset(a, Zero, RNeg(factor(i)), Zero))

nose_bridge_offsets(vs, a) ==
    LET bridge_height == RAdd(a.nose_height, RMul(a.face_height, R(12, 100)))
        bridge_zone   == RMul(a.face_height, R(12, 100))
        bridge_width  == RMul(a.face_width, R(12, 100))
        dh(i) == RAbs(RSub(get_height(a, vs[i]), bridge_height))
        vw(i) == get_width(vs[i])
        In(i) == RLt(dh(i), bridge_zone) /\ RLt(vw(i), bridge_width)
        factor(i) == Mul3(a.base_offset, R(7, 10), Falloff(dh(i), bridge_zone))
    IN  Dict(vs, In, LAMBDA i : make_offset(a, RMul(direction(a, vs[i]), factor(i)), Zero, Zero))

nose_tip_offsets(vs, a) ==
    LET tip_height == RSub(a.nose_height, RMul(a.face_height, R(8, 100)))
        tip_zone   == RMul(a.face_height, R(10, 100))
        tip_width  == RMul(a.face_width, R(15, 100))
        dh(i) == RAbs(RSub(get_height(a, vs[i]), tip_height))
        vw(i) == get_width(vs[i])
        In(i) == RLt(dh(i), tip_zone) /\ RLt(vw(i), tip_width)
        factor(i) == RMul(a.base_offset, Falloff(dh(i), tip_zone))
    IN  Dict(vs, In, LAMBDA i : make_offset(a, Zero, Zero, factor(i)))

nostril_offsets(vs, a) ==
    LET nostril_height == RSub(a.nose_height, RMul(a.face_height, R(6, 100)))
        nostril_zone   == RMul(a.face_height, R(8, 100))
        nostril_inner  == RMul(a.face_width, R(5, 100))
        nostril_outer  == RMul(a.face_width, R(18, 100))
        dh(i) == RAbs(RSub(get_height(a, vs[i]), nostril_height))
        vw(i) == get_width(vs[i])
        In(i) == RLt(dh(i), nostril_zone) /\ RGt(vw(i), nostril_inner) /\ RLt(vw(i), nostril_outer)
        factor(i) == RMul(a.base_offset, Falloff(dh(i), nostril_zone))
    IN  Dict(vs, In, LAMBDA i : make_offset(a, RMul(direction(a, vs[i]), factor(i)), Zero, Zero))

nose_profile_offsets(vs, a) ==
    LET nose_width_zone == RMul(a.face_width, R(20, 100))
        profile_zone == RMul(a.face_height, R(25, 100))
        dh(i) == RSub(get_height(a, vs[i]), a.nose_height)
        vw(i) == get_width(vs[i])
        In(i) == RLt(RAbs(dh(i)), profile_zone) /\ RLt(vw(i), RMul(nose_width_zone, R(8, 10)))
        profile_factor(i) == RMax(Zero, RDiv(RAdd(dh(i), RMul(profile_zone, R(4, 10))),
                                             RMul(profile_zone, R(14, 10))))
        factor(i) == Mul3(a.base_offset, R(15, 10), profile_factor(i))
    IN  Dict(vs, In, LAMBDA i : make_offset(a, Zero, RNeg(factor(i)), Zero))

(* ============== MOUTH/LIPS (5 morphs) ============== *)
mouth_width_offsets(vs, a) ==
    LET mouth_zone_h == RMul(a.face_height, R(12, 100))
        mouth_inner  == RMul(a.face_width, R(10, 100))
        mouth_outer  == RMul(a.face_width, R(30, 100))
        dh(i) == RAbs(RSub(get_height(a, vs[i]), a.mouth_height))
        vw(i) == get_width(vs[i])
        In(i) == RLt(dh(i), mouth_zone_h) /\ RGt(vw(i), mouth_inner) /\ RLt(vw(i), mouth_outer)
        factor(i) == RMul(a.base_offset, Falloff(dh(i), mouth_zone_h))
    IN  Dict(vs, In, LAMBDA i : make_offset(a, RMul(direction(a, vs[i]), factor(i)), Zero, Zero))

upper_lip_offsets(vs, a) ==
    LET lip_width == RMul(a.face_width, R(25, 100))
        lip_zone  == RMul(a.face_height, R(6, 100))
        upper_lip_height == RAdd(a.mouth_height, RMul(a.face_height, R(4, 100)))
        dh(i) == RAbs(RSub(get_height(a, vs[i]), upper_lip_height))
        vw(i) == get_width(vs[i])
        In(i) == RLt(dh(i), lip_zone) /\ RLt(vw(i), lip_width)
        factor(i) == Mul3(a.base_offset, R(7, 10), Falloff(dh(i), lip_zone))
    IN  Dict(vs, In, LAMBDA i : make_offset(a, Zero, RNeg(factor(i)), RMul(factor(i), R(5, 10))))

lower_lip_offsets(vs, a) ==
    LET lip_width == RMul(a.face_width, R(25, 100))
        lip_zone  == RMul(a.face_height, R(6, 100))
        lower_lip_height == RSub(a.mouth_height, RMul(a.face_height, R(4, 100)))
        dh(i) == RAbs(RSub(get_height(a, vs[i]), lower_lip_height))
        vw(i) == get_width(vs[i])
        In(i) == RLt(dh(i), lip_zone) /\ RLt(vw(i), lip_width)
        factor(i) == Mul3(a.base_offset, R(7, 10), Falloff(dh(i), lip_zone))
    IN  Dict(vs, In, LAMBDA i : make_offset(a, Zero, RNeg(factor(i)), RMul(RNeg(factor(i)), R(5, 10))))

lip_offsets(vs, a) ==
    LET mouth_zone_h == RMul(a.face_height, R(12, 100))
        lip_width == RMul(a.face_width, R(25, 100))
        zone  == RMul(mouth_zone_h, R(8, 10))
        dh(i) == RAbs(RSub(get_height(a, vs[i]), a.mouth_height))
        vw(i) == get_width(vs[i])
        In(i) == RLt(dh(i), zone) /\ RLt(vw(i), lip_width)
        factor(i) == Mul3(Falloff(dh(i), zone), a.base_offset, R(7, 10))
    IN  Dict(vs, In, LAMBDA i : make_offset(a, Zero, RNeg(factor(i)), Zero))

mouth_corners_offsets(vs, a) ==
    LET mouth_zone_h == RMul(a.face_height, R(12, 100))
        corner_inner == RMul(a.face_width, R(15, 100))
        corner_outer == RMul(a.face_width, R(30, 100))
        zone  == RMul(mouth_zone_h, R(8, 10))
        dh(i) == RAbs(RSub(get_height(a, vs[i]), a.mouth_height))
        vw(i) == get_width(vs[i])
        In(i) == RLt(dh(i), zone) /\ RGt(vw(i), corner_inner) /\ RLt(vw(i), corner_outer)
        factor(i) == RMul(a.base_offset, Falloff(dh(i), zone))
    IN  Dict(vs, In, LAMBDA i : make_offset(a, Zero, Zero, factor(i)))

(* ============== JAW/FACE SHAPE ============== *)
jaw_offsets(vs, a) ==
    LET jaw_zone  == RMul(a.face_height, R(30, 100))
        jaw_inner == RMul(a.face_width, R(20, 100))
        jaw_outer == RMul(a.face_width, R(55, 100))
        dh(i) == RSub(get_height(a, vs[i]), a.chin_height)
        vw(i) == get_width(vs[i])
        In(i) == RLt(RAbs(dh(i)), jaw_zone) /\ RGt(vw(i), jaw_inner) /\ RLt(vw(i), jaw_outer)
        factor(i) == Mul3(RDiv(vw(i), jaw_outer), a.base_offset, Falloff(RAbs(dh(i)), jaw_zone))
    IN  Dict(vs, In, LAMBDA i : make_offset(a, RMul(direction(a, vs[i]), factor(i)), Zero, Zero))

chin_offsets(vs, a) ==
    LET chin_zone     == RMul(a.face_height, R(15, 100))
        chin_center_h == RSub(a.chin_height, RMul(a.face_height, R(8, 100)))
        chin_width    == RMul(a.face_width, R(25, 100))
        dh(i) == RSub(get_height(a, vs[i]), chin_center_h)
        vw(i) == get_width(vs[i])
        In(i) == RLt(RAbs(dh(i)), chin_zone) /\ RLt(vw(i), chin_width)
        factor(i) == RMul(Falloff(RAbs(dh(i)), chin_zone), a.base_offset)
    IN  Dict(vs, In, LAMBDA i : make_offset(a, Zero, Zero, RNeg(factor(i))))

chin_protrusion_offsets(vs, a) ==
    LET chin_width == RMul(a.face_width, R(25, 100))
        chin_protrusion_zone == RMul(a.face_height, R(18, 100))
        dh(i) == RSub(get_height(a, vs[i]), a.chin_height)
        vw(i) == get_width(vs[i])
        In(i) == RLt(RAbs(dh(i)), chin_protrusion_zone) /\ RLt(vw(i), chin_width)
        factor(i) == Mul3(a.base_offset, R(13, 10), Falloff(RAbs(dh(i)), chin_protrusion_zone))
    IN  Dict(vs, In, LAMBDA i : make_offset(a, Zero, RNeg(factor(i)), Zero))

chin_cleft_offsets(vs, a) ==
    LET cleft_h     == RSub(a.chin_height, RMul(a.face_height, R(4, 100)))
        cleft_zone  == RMul(a.face_height, R(8, 100))
        cleft_width == RMul(a.face_width, R(10, 100))
        dh(i) == RAbs(RSub(get_height(a, vs[i]), cleft_h))
        vw(i) == get_width(vs[i])
        In(i) == RLt(dh(i), cleft_zone) /\ RLt(vw(i), cleft_width)
        factor(i) == RMul(Mul3(a.base_offset, R(7, 10), Falloff(dh(i), cleft_zone)),
                          Falloff(vw(i), cleft_width))
    IN  Dict(vs, In, LAMBDA i : make_offset(a, Zero, factor(i), Zero))

(* variant: the threshold on the offset scales with the face height *)
face_length_offsets_rel(vs, a) ==
    LET face_center_h == RDiv(RAdd(a.forehead_height, a.chin_height), R(2, 1))
        face_span     == RSub(a.forehead_height, a.chin_height)
        lower_bound   == RSub(a.chin_height, RMul(a.face_height, R(8, 100)))
        upper_bound   == RAdd(a.forehead_height, RMul(a.face_height, R(8, 100)))
        vh(i) == get_height(a, vs[i])
        factor(i) == Mul3(a.base_offset, R(6, 10), RDiv(RSub(vh(i), face_center_h), face_span))
        In(i) == RGt(vh(i), lower_bound) /\ RLt(vh(i), upper_bound)
                   /\ RGt(RAbs(factor(i)), RMul(a.face_height, R(1, 10000)))
    IN  Dict(vs, In, LAMBDA i : make_offset(a, Zero, Zero, factor(i)))

face_length_offsets(vs, a) ==
    LET face_center_h == RDiv(RAdd(a.forehead_height, a.chin_height), R(2, 1))
        face_span     == RSub(a.forehead_height, a.chin_height)
        lower_bound   == RSub(a.chin_height, RMul(a.face_height, R(8, 100)))
        upper_bound   == RAdd(a.forehead_height, RMul(a.face_height, R(8, 100)))
        vh(i) == get_height(a, vs[i])
        factor(i) == Mul3(a.base_offset, R(6, 10), RDiv(RSub(vh(i), face_center_h), face_span))
        In(i) == RGt(vh(i), lower_bound) /\ RLt(vh(i), upper_bound)
                   /\ RGt(RAbs(factor(i)), R(1, 10000))
    IN  Dict(vs, In, LAMBDA i : make_offset(a, Zero, Zero, factor(i)))

forehead_offsets(vs, a) ==
    LET forehead_zone  == RMul(a.face_height, R(15, 100))
        forehead_width == RMul(a.face_width, R(45, 100))
        dh(i) == RSub(get_height(a, vs[i]), a.forehead_height)
        vw(i) == get_width(vs[i])
        In(i) == RGt(dh(i), RNeg(RMul(forehead_zone, R(5, 10)))) /\ RLt(dh(i), forehead_zone)
                   /\ RLt(vw(i), forehead_width)
        factor(i) == Mul3(a.base_offset, R(13, 10), RMax(Zero, Falloff(RAbs(dh(i)), forehead_zone)))
    IN  Dict(vs, In, LAMBDA i : make_offset(a, Zero, Zero, factor(i)))

cheek_offsets(vs, a) ==
    LET cheek_zone  == RMul(a.face_height, R(15, 100))
        cheek_inner == RMul(a.face_width, R(25, 100))
        cheek_outer == RMul(a.face_width, R(55, 100))
        dh(i) == RAbs(RSub(get_height(a, vs[i]), a.cheek_height))
        vw(i) == get_width(vs[i])
        In(i) == RLt(dh(i), cheek_zone) /\ RGt(vw(i), cheek_inner) /\ RLt(vw(i), cheek_outer)
        factor(i) == Falloff(dh(i), cheek_zone)
    IN  Dict(vs, In, LAMBDA i :
            make_offset(a, RMul(direction(a, vs[i]), Mul3(a.base_offset, R(3, 10), factor(i))),
                        Zero, Mul3(a.base_offset, R(7, 10), factor(i))))

(* the shape keys of create_face_morphs, in the order it adds them *)
FaceMorphNames ==
    << "EyeSize", "EyeSpacing", "EyeTilt", "EyeDepth", "UpperEyelid", "LowerEyelid",
       "EyebrowHeight", "EyebrowArch",
       "NoseWidth", "NoseLength", "NoseBridge", "NoseTip", "NostrilFlare", "NoseProfile",
       "MouthWidth", "UpperLipSize", "LowerLipSize", "LipFullness", "MouthCorners",
       "JawWidth", "ChinLength", "ChinProtrusion", "ChinCleft",
       "FaceLength", "ForeheadHeight", "CheekboneHeight" >>

face_morph_offsets(n, vs, a) ==
    CASE n = "EyeSize"         -> eye_offsets(vs, a)
      [] n = "EyeSpacing"      -> eye_spacing_offsets(vs, a)
      [] n = "EyeTilt"         -> eye_tilt_offsets(vs, a)
      [] n = "EyeDepth"        -> eye_depth_offsets(vs, a)
      [] n = "UpperEyelid"     -> upper_eyelid_offsets(vs, a)
      [] n = "LowerEyelid"     -> lower_eyelid_offsets(vs, a)
      [] n = "EyebrowHeight"   -> eyebrow_height_offsets(vs, a)
      [] n = "EyebrowArch"     -> eyebrow_arch_offsets(vs, a)
      [] n = "NoseWidth"       -> nose_offsets(vs, a)
      [] n = "NoseLength"      -> nose_length_offsets(vs, a)
      [] n = "NoseBridge"      -> nose_bridge_offsets(vs, a)
      [] n = "NoseTip"         -> nose_tip_offsets(vs, a)
      [] n = "NostrilFlare"    -> nostril_offsets(vs, a)
      [] n = "NoseProfile"     -> nose_profile_offsets(vs, a)
      [] n = "MouthWidth"      -> mouth_width_offsets(vs, a)
      [] n = "UpperLipSize"    -> upper_lip_offsets(vs, a)
      [] n = "LowerLipSize"    -> lower_lip_offsets(vs, a)
      [] n = "LipFullness"     -> lip_offsets(vs, a)
      [] n = "MouthCorners"    -> mouth_corners_offsets(vs, a)
      [] n = "JawWidth"        -> jaw_offsets(vs, a)
      [] n = "ChinLength"      -> chin_offsets(vs, a)
      [] n = "ChinProtrusion"  -> chin_protrusion_offsets(vs, a)
      [] n = "ChinCleft"       -> chin_cleft_offsets(vs, a)
      [] n = "FaceLength"      -> face_length_offsets(vs, a)
      [] n = "ForeheadHeight"  -> forehead_offsets(vs, a)
      [] n = "CheekboneHeight" -> cheek_offsets(vs, a)

(***************************************************************************)
(* add_morphs_to_existing.py: create_body_morphs (always measured along Z) *)
(***************************************************************************)
body_locals(vs) ==
    LET b == get_mesh_bounds(vs)
        mesh_height == Extent(b, 3)
        mesh_width  == Extent(b, 1)
    IN  [ mesh_height |-> mesh_height,
          mesh_width  |-> mesh_width,
          body_top    |-> FSub(b.max_co[3], FScale(mesh_height, R(125, 1000))),
          body_bottom |-> b.min_co[3],
          center_x    |-> Center(b, 1),
          body_offset |-> FScale(mesh_width, R(15, 1000)),
          min_dx      |-> FScale(mesh_width, R(12, 100)) ]

slim_offsets(vs) ==
    LET l == body_locals(vs)
        dx(i) == RSub(vs[i][1], l.center_x)
        In(i) == RLt(vs[i][3], l.body_top) /\ RGt(RAbs(dx(i)), l.min_dx)
    IN  Dict(vs, In, LAMBDA i : <<RMul(dx(i), R(-2, 100)), Zero, Zero>>)

athletic_offsets(vs) ==
    LET l == body_locals(vs)
        shoulder_region == RMul(l.mesh_height, R(20, 100))
        torso_bottom == RAdd(l.body_bottom, RMul(l.mesh_height, R(25, 100)))
        dx(i) == RSub(vs[i][1], l.center_x)
        shoulder_zone(i) ==
            RMax(Zero, RDiv(RSub(vs[i][3], RSub(l.body_top, shoulder_region)), shoulder_region))
        In(i) == RLt(vs[i][3], l.body_top) /\ RGt(vs[i][3], torso_bottom)
                   /\ RGt(RAbs(dx(i)), l.min_dx) /\ RGt(shoulder_zone(i), Zero)
    IN  Dict(vs, In, LAMBDA i : <<RMul(dx(i), RMul(R(15, 1000), shoulder_zone(i))), Zero, Zero>>)

heavy_offsets(vs) ==
    LET l == body_locals(vs)
        torso_mid == RAdd(l.body_bottom, RMul(l.mesh_height, R(20, 100)))
        dx(i) == RSub(vs[i][1], l.center_x)
        In(i) == RLt(vs[i][3], l.body_top) /\ RGt(RAbs(dx(i)), l.min_dx)
        y_offset(i) == IF RGt(vs[i][3], torso_mid) THEN RMul(RNeg(l.body_offset), R(3, 10)) ELSE Zero
    IN  Dict(vs, In, LAMBDA i : <<RMul(dx(i), R(3, 100)), y_offset(i), Zero>>)

BodyMorphNames ==
    << "Build_Slim", "Build_Athletic", "Build_Heavy" >>

body_morph_offsets(n, vs) ==
    CASE n = "Build_Slim"     -> slim_offsets(vs)
      [] n = "Build_Athletic" -> athletic_offsets(vs)
      [] n = "Build_Heavy"    -> heavy_offsets(vs)

(***************************************************************************)
(* add_morph_targets.py: the older script, Z-up with absolute offsets.     *)
(***************************************************************************)
amt_locals(vs) ==
    LET b == get_mesh_bounds(vs)
    IN  [ max_y        |-> b.max_co[2],
          max_z        |-> b.max_co[3],
          chin_height  |-> FSub(b.max_co[3], R(25, 100)),
          eye_height   |-> FSub(b.max_co[3], R(8, 100)),
          nose_height  |-> FSub(b.max_co[3], R(12, 100)),
          mouth_height |-> FSub(b.max_co[3], R(18, 100)),
          body_top     |-> FSub(b.max_co[3], R(25, 100)),
          body_bottom  |-> b.min_co[3],
          center_x     |-> Center(b, 1) ]

(* variant: no test of the height band *)
amt_eye_offsets_unbanded(vs) ==
    LET l == amt_locals(vs)
        In(i) == RLt(RAbs(RSub(vs[i][2], l.max_y)), R(1, 10))
    IN  Dict(vs, In, LAMBDA i :
            <<Zero, Zero, RSub(RMul(vs[i][3], R(2, 100)), RMul(l.eye_height, R(2, 100)))>>)

amt_eye_offsets(vs) ==
    LET l == amt_locals(vs)
        In(i) == RLt(RAbs(RSub(vs[i][3], l.eye_height)), R(4, 100))
                   /\ RLt(RAbs(RSub(vs[i][2], l.max_y)), R(1, 10))
    IN  Dict(vs, In, LAMBDA i :
            <<Zero, Zero, RSub(RMul(vs[i][3], R(2, 100)), RMul(l.eye_height, R(2, 100)))>>)

amt_eye_spacing_offsets(vs) ==
    LET l == amt_locals(vs)
        In(i) == RLt(RAbs(RSub(vs[i][3], l.eye_height)), R(4, 100))
                   /\ RLt(RAbs(RSub(vs[i][2], l.max_y)), R(1, 10))
    IN  Dict(vs, In, LAMBDA i : <<RMul(direction(l, vs[i]), R(1, 100)), Zero, Zero>>)

amt_nose_offsets(vs) ==
    LET l == amt_locals(vs)
        distance(i) == RAbs(RSub(vs[i][1], l.center_x))
        In(i) == RLt(RAbs(RSub(vs[i][3], l.nose_height)), R(3, 100))
                   /\ RLt(distance(i), R(5, 100))
    IN  Dict(vs, In, LAMBDA i :
            <<Mul3(direction(l, vs[i]), distance(i), R(3, 10)), Zero, Zero>>)

amt_nose_length_offsets(vs) ==
    LET l == amt_locals(vs)
        dz(i) == RAbs(RSub(vs[i][3], l.nose_height))
        In(i) == RLt(dz(i), R(4, 100)) /\ RLt(vs[i][2], RSub(l.max_y, R(2, 100)))
        factor(i) == RMul(RMax(Zero, RSub(One, RDiv(dz(i), R(4, 100)))), R(2, 100))
    IN  Dict(vs, In, LAMBDA i : <<Zero, RNeg(factor(i)), Zero>>)

amt_jaw_offsets(vs) ==
    LET l == amt_locals(vs)
        distance(i) == RAbs(RSub(vs[i][1], l.center_x))
        In(i) == RLt(vs[i][3], RAdd(l.chin_height, R(5, 100)))
                   /\ RGt(vs[i][3], RSub(l.chin_height, R(3, 100)))
    IN  Dict(vs, In, LAMBDA i :
            <<Mul3(direction(l, vs[i]), distance(i), R(2, 10)), Zero, Zero>>)

amt_chin_offsets(vs) ==
    LET l == amt_locals(vs)
        In(i) == RLt(vs[i][3], RAdd(l.chin_height, R(2, 100)))
                   /\ RLt(RAbs(RSub(vs[i][1], l.center_x)), R(5, 100))
        factor(i) ==
            RMul(RMax(Zero, RSub(One, RDiv(RSub(vs[i][3], RSub(l.chin_height, R(2, 100))),
                                           R(4, 100)))),
                 R(2, 100))
    IN  Dict(vs, In, LAMBDA i : <<Zero, Zero, RNeg(factor(i))>>)

amt_lip_offsets(vs) ==
    LET l == amt_locals(vs)
        In(i) == RLt(RAbs(RSub(vs[i][3], l.mouth_height)), R(2, 100))
                   /\ RLt(RAbs(RSub(vs[i][1], l.center_x)), R(4, 100))
    IN  Dict(vs, In, LAMBDA i : <<Zero, R(-1, 100), Zero>>)

amt_cheek_offsets(vs) ==
    LET l == amt_locals(vs)
        cheek_height == RSub(l.eye_height, R(3, 100))
        In(i) == RLt(RAbs(RSub(vs[i][3], cheek_height)), R(3, 100))
                   /\ RGt(RAbs(RSub(vs[i][1], l.center_x)), R(3, 100))
    IN  Dict(vs, In, LAMBDA i : <<RMul(direction(l, vs[i]), R(5, 1000)), Zero, R(1, 100)>>)

(* "if any(o != 0 for o in offset)" *)
AnyNonZero(off) ==
    \E c \in 1..3 : off[c] # Zero

amt_slim_offsets(vs) ==
    LET l == amt_locals(vs)
        dist(i) == RAbs(RSub(vs[i][1], l.center_x))
        off(i)  == << IF RGt(dist(i), R(5, 100))
                      THEN RMul(R(-5, 100), RSub(vs[i][1], l.center_x)) ELSE Zero,
                      Zero, Zero >>
        In(i) == RLt(vs[i][3], l.body_top) /\ AnyNonZero(off(i))
    IN  Dict(vs, In, off)

amt_athletic_offsets(vs) ==
    LET l == amt_locals(vs)
        dist(i) == RAbs(RSub(vs[i][1], l.center_x))
        shoulder_factor(i) ==
            RMax(Zero, RDiv(RSub(vs[i][3], RSub(l.body_top, R(3, 10))), R(3, 10)))
        off(i)  == << IF RGt(dist(i), R(5, 100))
                      THEN Mul3(R(3, 100), RSub(vs[i][1], l.center_x), shoulder_factor(i))
                      ELSE Zero,
                      Zero, Zero >>
        In(i) == RLt(vs[i][3], l.body_top) /\ RGt(vs[i][3], RAdd(l.body_bottom, R(3, 10)))
                   /\ AnyNonZero(off(i))
    IN  Dict(vs, In, off)

amt_heavy_offsets(vs) ==
    LET l == amt_locals(vs)
        dist(i) == RAbs(RSub(vs[i][1], l.center_x))
        off(i)  == << IF RGt(dist(i), R(5, 100))
                      THEN RMul(R(8, 100), RSub(vs[i][1], l.center_x)) ELSE Zero,
                      IF RGt(vs[i][3], RAdd(l.body_bottom, R(3, 10))) THEN R(-2, 100) ELSE Zero,
                      Zero >>
        In(i) == RLt(vs[i][3], l.body_top) /\ AnyNonZero(off(i))
    IN  Dict(vs, In, off)

AmtMorphNames ==
    << "EyeSize", "EyeSpacing", "NoseWidth", "NoseLength", "JawWidth", "ChinLength",
       "LipFullness", "CheekboneHeight", "Build_Slim", "Build_Athletic", "Build_Heavy" >>

amt_morph_offsets(n, vs) ==
    CASE n = "EyeSize"         -> amt_eye_offsets(vs)
      [] n = "EyeSpacing"      -> amt_eye_spacing_offsets(vs)
      [] n = "NoseWidth"       -> amt_nose_offsets(vs)
      [] n = "NoseLength"      -> amt_nose_length_offsets(vs)
      [] n = "JawWidth"        -> amt_jaw_offsets(vs)
      [] n = "ChinLength"      -> amt_chin_offsets(vs)
      [] n = "LipFullness"     -> amt_lip_offsets(vs)
      [] n = "CheekboneHeight" -> amt_cheek_offsets(vs)
      [] n = "Build_Slim"      -> amt_slim_offsets(vs)
      [] n = "Build_Athletic"  -> amt_athletic_offsets(vs)
      [] n = "Build_Heavy"     -> amt_heavy_offsets(vs)

(***************************************************************************)
(* Shape keys (Blender key_blocks): a sequence of [name, data], data being *)
(* one coordinate triple per vertex.                                       *)
(***************************************************************************)
KeyNames(keys) ==
    {keys[k].name : k \in DOMAIN keys}

RemoveKey(keys, name) ==
    SelectSeq(keys, LAMBDA kb : kb.name # name)

(* mesh_obj.shape_key_add(name=...): a new key holding the mesh positions *)
shape_key_add(keys, vs, name) ==
    Append(keys, [name |-> name, data |-> [i \in DOMAIN vs |-> vs[i]]])

(* variant: the new key starts from the last key instead of the mesh *)
add_shape_key_cumulative(keys, vs, name, vertex_offsets) ==
    LET k0   == IF keys = <<>> THEN shape_key_add(keys, vs, "Basis") ELSE keys
        k1   == IF name \in KeyNames(k0) THEN RemoveKey(k0, name) ELSE k0
        from == k1[Len(k1)].data
    IN  Append(k1, [name |-> name,
                    data |-> [i \in DOMAIN vs |->
                                 IF i \in DOMAIN vertex_offsets
                                 THEN VAdd(from[i], vertex_offsets[i])
                                 ELSE from[i]]])

add_shape_key(keys, vs, name, vertex_offsets) ==
    LET k0 == IF keys = <<>> THEN shape_key_add(keys, vs, "Basis") ELSE keys
        k1 == IF name \in KeyNames(k0) THEN RemoveKey(k0, name) ELSE k0
        k2 == shape_key_add(k1, vs, name)
        sk == k2[Len(k2)]
    IN  [k2 EXCEPT ![Len(k2)].data =
            [i \in DOMAIN sk.data |->
                IF i \in DOMAIN vertex_offsets
                THEN VAdd(vs[i], vertex_offsets[i])
                ELSE sk.data[i]]]

(* Blender gives a key whose name is taken the suffix .001 *)
UniqueName(keys, name) ==
    IF name \in KeyNames(keys) THEN name \o ".001" ELSE name

(* add_morph_targets.py add_shape_key: no removal of an existing key *)
amt_add_shape_key(keys, vs, name, vertex_offsets) ==
    LET k0 == IF keys = <<>> THEN shape_key_add(keys, vs, "Basis") ELSE keys
        k2 == shape_key_add(k0, vs, UniqueName(k0, name))
        sk == k2[Len(k2)]
    IN  [k2 EXCEPT ![Len(k2)].data =
            [i \in DOMAIN sk.data |->
                IF i \in DOMAIN vertex_offsets
                THEN VAdd(vs[i], vertex_offsets[i])
                ELSE sk.data[i]]]

(* clear_existing_shape_keys: remove every key not named 'Basis' *)
(* variant: only the first key that is not Basis is removed *)
clear_existing_shape_keys_first(keys) ==
    LET others == {k \in DOMAIN keys : keys[k].name # "Basis"}
    IN  IF others = {} THEN keys
        ELSE RemoveKey(keys, keys[CHOOSE k \in others : \A o \in others : k <= o].name)

clear_existing_shape_keys(keys) ==
    SelectSeq(keys, LAMBDA kb : kb.name = "Basis")

(* shape keys a model file may already carry when it is imported *)
StaleKeys(vs) ==
    LET moved == [i \in DOMAIN vs |-> VAdd(vs[i], <<One, Zero, Zero>>)]
    IN  << [name |-> "Basis", data |-> [i \in DOMAIN vs |-> vs[i]]],
           [name |-> "EyeSize", data |-> moved],
           [name |-> "Smile", data |-> moved] >>

(***************************************************************************)
(* generate_avatar_meshes.py: procedural morphs written into dense keys.   *)
(***************************************************************************)
(* get_mesh_bounds: zero vectors when the mesh has no vertex *)
gam_get_mesh_bounds(vs) ==
    IF vs = <<>>
    THEN [min_co |-> [c \in 1..3 |-> Zero], max_co |-> [c \in 1..3 |-> Zero]]
    ELSE get_mesh_bounds(vs)

(* the regions dict; has = the keys present in the entry *)
gam_regions(b) ==
    LET head_height == b.max_co[3]
        centered(zc, zr, xmin, xmax, has) ==
            [ has |-> has, z_center |-> RSub(head_height, zc), z_range |-> zr,
              x_min |-> xmin, x_max |-> xmax, z_min |-> Zero, z_max |-> Zero ]
    IN  [ eyes   |-> centered(R(8, 100), R(4, 100), Zero, R(12, 100),
                              {"z_center", "z_range", "x_max"}),
          nose   |-> centered(R(12, 100), R(3, 100), Zero, R(4, 100),
                              {"z_center", "z_range", "x_max"}),
          jaw    |-> centered(R(22, 100), R(6, 100), R(3, 100), R(15, 100),
                              {"z_center", "z_range", "x_min", "x_max"}),
          chin   |-> centered(R(25, 100), R(3, 100), Zero, R(4, 100),
                              {"z_center", "z_range", "x_max"}),
          lips   |-> centered(R(18, 100), R(2, 100), Zero, R(4, 100),
                              {"z_center", "z_range", "x_max"}),
          cheeks |-> centered(R(12, 100), R(3, 100), R(4, 100), R(12, 100),
                              {"z_center", "z_range", "x_min", "x_max"}),
          torso  |-> [ has |-> {"z_min", "z_max", "x_min"}, z_center |-> Zero, z_range |-> Zero,
                       x_min |-> R(5, 100), x_max |-> Zero,
                       z_min |-> RAdd(b.min_co[3], R(3, 10)),
                       z_max |-> RSub(head_height, R(25, 100)) ] ]

(* the offset create_procedural_morph adds to one vertex *)
gam_vertex_offset(v, b, params) ==
    LET center_x == Center(b, 1)
        regions  == gam_regions(b)
        reg == regions[params.region]
        dz  == RAbs(RSub(v[3], reg.z_center))
        dx  == RAbs(RSub(v[1], center_x))
        in_height == IF "z_center" \in reg.has
                     THEN ~RGt(dz, reg.z_range)
                     ELSE IF "z_min" \in reg.has /\ "z_max" \in reg.has
                     THEN ~(RLt(v[3], reg.z_min) \/ RGt(v[3], reg.z_max))
                     ELSE TRUE
        falloff   == IF "z_center" \in reg.has
                     THEN RSub(One, RDiv(dz, reg.z_range))
                     ELSE One
        in_region == /\ in_height
                     /\ ~("x_max" \in reg.has /\ RGt(dx, reg.x_max))
                     /\ ~("x_min" \in reg.has /\ RLt(dx, reg.x_min))
        sign == IF RGt(v[1], center_x) THEN One ELSE RNeg(One)
        af   == RMul(params.amount, falloff)
    IN  IF params.region \in DOMAIN regions /\ in_region /\ RGt(falloff, Zero)
        THEN CASE params.direction = "x"       -> <<RMul(sign, af), Zero, Zero>>
               [] params.direction = "x_scale" -> <<Mul3(dx, af, sign), Zero, Zero>>
               [] params.direction = "y"       -> <<Zero, af, Zero>>
               [] params.direction = "z"       -> <<Zero, Zero, af>>
               [] params.direction = "scale"   -> <<Mul3(dx, af, sign),
                                                    Mul3(v[2], af, R(5, 10)), Zero>>
               [] OTHER                        -> ZeroVec
        ELSE ZeroVec

(* variant: the new key starts from the key added last, not from the mesh *)
create_procedural_morph_from_last(keys, vs, morph_name, params) ==
    LET k0 == IF keys = <<>> THEN shape_key_add(keys, vs, "Basis") ELSE keys
        b  == gam_get_mesh_bounds(vs)
        from == k0[Len(k0)].data
    IN  IF morph_name \in KeyNames(k0)
        THEN k0
        ELSE Append(k0, [name |-> morph_name,
                         data |-> [i \in DOMAIN vs |->
                                      VAdd(from[i], gam_vertex_offset(vs[i], b, params))]])

(* create_procedural_morph: an existing key of that name is returned as it *)
(* is; otherwise every vertex of the new key is written                    *)
create_procedural_morph(keys, vs, morph_name, params) ==
    LET k0 == IF keys = <<>> THEN shape_key_add(keys, vs, "Basis") ELSE keys
        b  == gam_get_mesh_bounds(vs)
    IN  IF morph_name \in KeyNames(k0)
        THEN k0
        ELSE Append(k0, [name |-> morph_name,
                         data |-> [i \in DOMAIN vs |->
                                      VAdd(vs[i], gam_vertex_offset(vs[i], b, params))]])

(* the morphs list of create_all_procedural_morphs *)
ProceduralMorphs ==
    << [name |-> "EyeSize",         region |-> "eyes",   direction |-> "scale",   amount |-> R(1, 10)],
       [name |-> "EyeSpacing",      region |-> "eyes",   direction |-> "x",       amount |-> R(5, 1000)],
       [name |-> "NoseWidth",       region |-> "nose",   direction |-> "x_scale", amount |-> R(15, 100)],
       [name |-> "NoseLength",      region |-> "nose",   direction |-> "y",       amount |-> R(-1, 100)],
       [name |-> "JawWidth",        region |-> "jaw",    direction |-> "x_scale", amount |-> R(8, 100)],
       [name |-> "ChinLength",      region |-> "chin",   direction |-> "z",       amount |-> R(-8, 1000)],
       [name |-> "LipFullness",     region |-> "lips",   direction |-> "y",       amount |-> R(-5, 1000)],
       [name |-> "CheekboneHeight", region |-> "cheeks", direction |-> "z",       amount |-> R(5, 1000)],
       [name |-> "Build_Slim",      region |-> "torso",  direction |-> "scale",   amount |-> R(-5, 100)],
       [name |-> "Build_Athletic",  region |-> "torso",  direction |-> "x_scale", amount |-> R(4, 100)],
       [name |-> "Build_Heavy",     region |-> "torso",  direction |-> "scale",   amount |-> R(6, 100)] >>

(* MORPH_MAPPINGS in the order the dict is iterated *)
MORPH_MAPPINGS ==
    << [name |-> "EyeSize",         sources |-> << <<"Eyes_Size", R(5, 10)>> >>],
       [name |-> "EyeSpacing",      sources |-> << <<"Eyes_PosX", R(5, 10)>> >>],
       [name |-> "NoseWidth",       sources |-> << <<"Nose_BaseSizeX", R(3, 10)>>,
                                                   <<"Nose_NostrilSizeX", R(2, 10)>> >>],
       [name |-> "NoseLength",      sources |-> << <<"Nose_SizeY", R(4, 10)>> >>],
       [name |-> "JawWidth",        sources |-> << <<"Jaw_ScaleX", R(5, 10)>> >>],
       [name |-> "ChinLength",      sources |-> << <<"Chin_SizeZ", R(3, 10)>>,
                                                   <<"Chin_Prominence", R(2, 10)>> >>],
       [name |-> "LipFullness",     sources |-> << <<"Mouth_LowerlipVolume", R(3, 10)>>,
                                                   <<"Mouth_UpperlipVolume", R(3, 10)>> >>],
       [name |-> "CheekboneHeight", sources |-> << <<"Cheeks_Zygom", R(4, 10)>> >>],
       [name |-> "Build_Slim",      sources |-> << <<"Torso_Mass", R(-3, 10)>>,
                                                   <<"Waist_Size", R(-2, 10)>>,
                                                   <<"Abdomen_Mass", R(-2, 10)>> >>],
       [name |-> "Build_Athletic",  sources |-> << <<"Torso_Tone", R(4, 10)>>,
                                                   <<"Torso_Vshape", R(3, 10)>>,
                                                   <<"Shoulders_Tone", R(2, 10)>> >>],
       [name |-> "Build_Heavy",     sources |-> << <<"Torso_Mass", R(4, 10)>>,
                                                   <<"Abdomen_Mass", R(3, 10)>>,
                                                   <<"Waist_Size", R(2, 10)>> >>] >>

(* the CharMorph morph files the mappings name *)
CharMorphSources ==
    << "Eyes_Size", "Eyes_PosX", "Nose_BaseSizeX", "Nose_NostrilSizeX", "Nose_SizeY",
       "Jaw_ScaleX", "Chin_SizeZ", "Chin_Prominence", "Mouth_LowerlipVolume",
       "Mouth_UpperlipVolume", "Cheeks_Zygom", "Torso_Mass", "Waist_Size",
       "Abdomen_Mass", "Torso_Tone", "Torso_Vshape", "Shoulders_Tone" >>

(* the sources a database may hold when the first choice of a mapping is   *)
(* missing                                                                 *)
SecondarySources ==
    { "Nose_NostrilSizeX", "Chin_Prominence", "Mouth_UpperlipVolume", "Waist_Size",
      "Abdomen_Mass", "Torso_Vshape", "Shoulders_Tone" }

(* a numpy delta array: ndim 1 is the flat array of 3 * Len(rows) floats,  *)
(* ndim 2 the array of shape (Len(rows), 3)                                *)
DeltaArray(k, ndim, nrows) ==
    [ ndim |-> ndim,
      rows |-> [i \in 1..nrows |-> <<R(k, 100), R(i, 100), R(0 - k, 100)>>] ]

(* what load_charmorph_morphs can return for a character: nothing, every   *)
(* source as a flat or as a two-dimensional array, the secondary sources   *)
(* only, or arrays that are one vertex short; a library is kept as the     *)
(* names it holds and the shape of its arrays                              *)
CharMorphLibraries(vs) ==
    LET nv  == Len(vs)
        all == {CharMorphSources[k] : k \in DOMAIN CharMorphSources}
        lib(names, ndim, nrows) == [names |-> names, ndim |-> ndim, nrows |-> nrows]
    IN  { lib({}, 1, 0), lib(all, 1, nv), lib(all, 2, nv), lib(SecondarySources, 1, nv) }
        \cup (IF nv > 0 THEN {lib(all, 2, nv - 1)} ELSE {})

(* charmorph_morphs[source_name] *)
LoadedDelta(library, source_name) ==
    LET k == CHOOSE j \in DOMAIN CharMorphSources : CharMorphSources[j] = source_name
    IN  DeltaArray(k, library.ndim, library.nrows)

(* the characters that come with a CharMorph database (char_path exists);  *)
(* the others are processed with charmorph_morphs = None                   *)
CharMorphCharacters ==
    BoxMeshes \cup UnitMeshes \cup {<<>>}
    \cup {RingMesh(s, d) : s \in Shapes, d \in {0, 654, 5000}}

(* len(delta_data) *)
DeltaLen(delta_data) ==
    IF delta_data.ndim = 1 THEN 3 * Len(delta_data.rows) ELSE Len(delta_data.rows)

(* the shape test of apply_morph_delta *)
DeltaShapeOk(delta_data, num_verts) ==
    \/ DeltaLen(delta_data) >= num_verts * 3
    \/ delta_data.ndim = 2 /\ Len(delta_data.rows) = num_verts

(* apply_morph_delta: an existing key of that name is returned as it is;   *)
(* on a shape mismatch the new key keeps the basis positions               *)
apply_morph_delta(keys, vs, morph_name, delta_data, weight) ==
    LET k0 == IF keys = <<>> THEN shape_key_add(keys, vs, "Basis") ELSE keys
    IN  IF morph_name \in KeyNames(k0)
        THEN k0
        ELSE IF ~DeltaShapeOk(delta_data, Len(vs))
        THEN Append(k0, [name |-> morph_name, data |-> vs])
        ELSE Append(k0, [name |-> morph_name,
                         data |-> [i \in DOMAIN vs |->
                                      IF i <= Len(delta_data.rows)
                                      THEN VAdd(vs[i], VScale(weight, delta_data.rows[i]))
                                      ELSE vs[i]]])

(* the params of the procedural fallback of process_character, with the    *)
(* default direction of params.get                                         *)
FallbackParams ==
    [region |-> "face", direction |-> "x", amount |-> R(1, 100)]

(* the inner for/else of process_character: the first listed source that   *)
(* is present is applied and the loop is left; with none present the       *)
(* procedural fallback runs                                                *)
apply_mapping(keys, vs, entry, library) ==
    LET present == {j \in DOMAIN entry.sources : entry.sources[j][1] \in library.names}
    IN  IF present # {}
        THEN LET j == CHOOSE m \in present : \A o \in present : m <= o
             IN  apply_morph_delta(keys, vs, entry.name,
                                   LoadedDelta(library, entry.sources[j][1]),
                                   entry.sources[j][2])
        ELSE create_procedural_morph(keys, vs, entry.name, FallbackParams)

(* whether the entry reaches the "Delta shape mismatch" warning *)
MismatchWarning(keys, vs, entry, library) ==
    LET present == {j \in DOMAIN entry.sources : entry.sources[j][1] \in library.names}
    IN  /\ present # {}
        /\ entry.name \notin KeyNames(keys)
        /\ LET j == CHOOSE m \in present : \A o \in present : m <= o
           IN  ~DeltaShapeOk(LoadedDelta(library, entry.sources[j][1]), Len(vs))

(***************************************************************************)
(* State                                                                   *)
(***************************************************************************)
VARIABLES
    script,      \* the script that is run
    vertices,    \* mesh.vertices of the main mesh (the basis positions)
    key_blocks,  \* mesh.shape_keys.key_blocks, <<>> when the mesh has none
    pc,          \* position in process_model / export_with_morphs
    step,        \* index of the next morph inside create_*_morphs
    analysis,    \* the locals create_face_morphs computes before its loops
    morphs,      \* name -> vertex_offsets dict passed to add_shape_key
    printed,     \* the "<name>: <n> vertices" lines written to stdout
    result,      \* return value of the run, "none" while it is running
    raised,      \* exception that ended the run, "none" otherwise
    charmorph_morphs  \* what load_charmorph_morphs returned: the source names and
                      \* the shape of their delta arrays

(* musicscrap: MusicScraper.scrape_music_data and its two executor tasks *)
VARIABLES
    request,     \* the call under way: its arguments
    bmi_task,    \* future of self._scrape_bmi in the executor
    ascap_task   \* future of self._scrape_ascap in the executor

scraper_vars ==
    <<request, bmi_task, ascap_task>>

(* musicscrap: score_single_song and calculate_metadata_score *)
VARIABLES
    song_data,             \* the request body
    cross_check_results,   \* what cross_check_song returned, or None
    songview_results       \* what scrape_songview returned, or None

score_vars ==
    <<song_data, cross_check_results, songview_results>>

(* the animation pipeline: process_animation.py, clean_locomotion_animations.py *)
VARIABLES
    args,         \* the command line: y_correction, preserve_hips_position
    anim_file,    \* the animation file on disk: armature, action, fcurves
    action,       \* the fcurves of the imported action
    exported      \* the fcurves written by the GLB export

anim_vars ==
    <<args, anim_file, action, exported>>

(* the animation pipeline: the main of batch_process.py *)
VARIABLES
    raw_dir,       \* RAW_DIR: whether it exists, and the names of its files
    input_files,   \* the files the loop has still to process
    exports        \* the GLB exports made, in order: input, output, settings

batch_vars ==
    <<raw_dir, input_files, exports>>

(* musicscrap: the search handler index of blueprints/main.py *)
VARIABLES
    cache,            \* current_app.cache: key -> value and expiry time
    search_history,   \* the SearchHistory rows committed, in order
    now,              \* the time, in units of half an hour
    scrapes           \* how many times scrape_music_data was invoked

index_vars ==
    <<cache, search_history, now, scrapes>>

(* everything outside the morph scripts *)
ext_vars ==
    <<scraper_vars, score_vars, anim_vars, batch_vars, index_vars>>

(* the state of the morph scripts that the other programs never touch *)
morph_vars ==
    <<vertices, key_blocks, step, analysis, morphs, printed, charmorph_morphs>>

vars ==
    <<script, vertices, key_blocks, pc, step, analysis, morphs, printed, result, raised,
      charmorph_morphs, ext_vars>>

NoTask ==
    [state |-> "none"]

ScraperIdle ==
    /\ request = "none"
    /\ bmi_task = NoTask
    /\ ascap_task = NoTask

ScoreIdle ==
    /\ song_data = "none"
    /\ cross_check_results = "none"
    /\ songview_results = "none"

AnimIdle ==
    /\ args = "none"
    /\ anim_file = "none"
    /\ action = <<>>
    /\ exported = "none"

BatchIdle ==
    /\ raw_dir = [exists |-> FALSE, names |-> {}]
    /\ input_files = <<>>
    /\ exports = <<>>

IndexIdle ==
    /\ cache = <<>>
    /\ search_history = <<>>
    /\ now = 0
    /\ scrapes = 0

ExtIdle ==
    /\ ScraperIdle
    /\ ScoreIdle
    /\ AnimIdle
    /\ BatchIdle
    /\ IndexIdle

NoLibrary ==
    [names |-> {}, ndim |-> 1, nrows |-> 0]

NoLocals ==
    [up_axis |-> "none", unit |-> "none"]

(* no morph script is run *)
MorphIdle ==
    /\ vertices = <<>>
    /\ key_blocks = <<>>
    /\ step = 0
    /\ analysis = NoLocals
    /\ morphs = <<>>
    /\ printed = <<>>
    /\ charmorph_morphs = NoLibrary

SupportedExt ==
    {".glb", ".gltf", ".fbx"}

FileExt ==
    SupportedExt \cup {".obj"}

Scripts ==
    {"add_morphs_to_existing", "add_morph_targets", "generate_avatar_meshes"}

(* the model file of add_morphs_to_existing.py may already carry shape     *)
(* keys; the other scripts load a bare mesh                                *)
Init ==
    /\ script \in Scripts
    /\ vertices \in Meshes
    /\ key_blocks \in IF script = "add_morphs_to_existing"
                     THEN {<<>>, StaleKeys(vertices)}
                     ELSE {<<>>}
    /\ pc = "import"
    /\ step = 0
    /\ analysis = NoLocals
    /\ morphs = <<>>
    /\ printed = <<>>
    /\ result = "none"
    /\ raised = "none"
    /\ charmorph_morphs \in IF script = "generate_avatar_meshes"
                              /\ vertices \in CharMorphCharacters
                           THEN CharMorphLibraries(vertices)
                           ELSE {NoLibrary}
    /\ ExtIdle

(* process_model up to the choice of the main mesh: import_model raises    *)
(* ValueError on an unsupported extension; "No mesh found" returns False    *)
import_model ==
    /\ script = "add_morphs_to_existing"
    /\ pc = "import"
    /\ \E ext \in FileExt, has_mesh \in BOOLEAN :
         IF ext \notin SupportedExt
         THEN /\ pc' = "done"
              /\ raised' = "ValueError"
              /\ result' = result
         ELSE IF ~has_mesh
         THEN /\ pc' = "done"
              /\ raised' = raised
              /\ result' = "False"
         ELSE /\ pc' = "clear"
              /\ raised' = raised
              /\ result' = result
    /\ UNCHANGED <<script, ext_vars, charmorph_morphs, vertices, key_blocks, step, analysis, morphs, printed>>

(* process_model: clear existing shape keys if any (to start fresh) *)
clear_shape_keys ==
    /\ script = "add_morphs_to_existing"
    /\ pc = "clear"
    /\ key_blocks' = IF key_blocks # <<>> THEN clear_existing_shape_keys(key_blocks)
                     ELSE key_blocks
    /\ pc' = "analyze"
    /\ UNCHANGED <<script, ext_vars, charmorph_morphs, vertices, step, analysis, morphs, printed, result, raised>>

(* variant: the bounds analysis rejects an empty mesh and a zero extent *)
analyze_mesh_checked ==
    /\ script = "add_morphs_to_existing"
    /\ pc = "analyze"
    /\ IF vertices = <<>> \/ \E c \in 1..3 : Extent(get_mesh_bounds(vertices), c) = Zero
       THEN /\ raised' = IF vertices = <<>> THEN "EmptyMeshError"
                                            ELSE "DegenerateGeometryError"
            /\ pc' = "done"
            /\ UNCHANGED <<analysis, step>>
       ELSE /\ analysis' = face_locals(vertices)
            /\ pc' = "face"
            /\ step' = 1
            /\ raised' = raised
    /\ UNCHANGED <<script, ext_vars, charmorph_morphs, vertices, key_blocks, morphs, printed, result>>

(* create_face_morphs up to its first loop: bounds, up axis, unit, landmarks *)
analyze_mesh ==
    /\ script = "add_morphs_to_existing"
    /\ pc = "analyze"
    /\ analysis' = face_locals(vertices)
    /\ pc' = "face"
    /\ step' = 1
    /\ UNCHANGED <<script, ext_vars, charmorph_morphs, vertices, key_blocks, morphs, printed, result, raised>>

(* one loop of create_face_morphs with its add_shape_key and print *)
create_face_morph ==
    /\ script = "add_morphs_to_existing"
    /\ pc = "face"
    /\ LET name == FaceMorphNames[step]
           offs == face_morph_offsets(name, vertices, analysis)
       IN  /\ key_blocks' = add_shape_key(key_blocks, vertices, name, offs)
           /\ morphs' = (name :> offs) @@ morphs
           /\ printed' = Append(printed, <<name, Cardinality(DOMAIN offs)>>)
    /\ IF step < Len(FaceMorphNames)
       THEN /\ step' = step + 1
            /\ pc' = pc
       ELSE /\ step' = 1
            /\ pc' = "body"
    /\ UNCHANGED <<script, ext_vars, charmorph_morphs, vertices, analysis, result, raised>>

(* one loop of create_body_morphs with its add_shape_key and print *)
create_body_morph ==
    /\ script = "add_morphs_to_existing"
    /\ pc = "body"
    /\ LET name == BodyMorphNames[step]
           offs == body_morph_offsets(name, vertices)
       IN  /\ key_blocks' = add_shape_key(key_blocks, vertices, name, offs)
           /\ morphs' = (name :> offs) @@ morphs
           /\ printed' = Append(printed, <<name, Cardinality(DOMAIN offs)>>)
    /\ IF step < Len(BodyMorphNames)
       THEN /\ step' = step + 1
            /\ pc' = pc
       ELSE /\ step' = 0
            /\ pc' = "export"
    /\ UNCHANGED <<script, ext_vars, charmorph_morphs, vertices, analysis, result, raised>>

(* process_model: export the GLB and return True *)
export_model ==
    /\ script = "add_morphs_to_existing"
    /\ pc = "export"
    /\ result' = "True"
    /\ pc' = "done"
    /\ UNCHANGED <<script, ext_vars, charmorph_morphs, vertices, key_blocks, step, analysis, morphs, printed, raised>>

(* export_with_morphs: load the mesh from the blend file; "No mesh found"   *)
(* returns False                                                           *)
amt_load ==
    /\ script = "add_morph_targets"
    /\ pc = "import"
    /\ \E has_mesh \in BOOLEAN :
         IF has_mesh
         THEN /\ pc' = "morph"
              /\ step' = 1
              /\ result' = result
         ELSE /\ pc' = "done"
              /\ step' = step
              /\ result' = "False"
    /\ UNCHANGED <<script, ext_vars, charmorph_morphs, vertices, key_blocks, analysis, morphs, printed, raised>>

(* one loop of add_morph_targets.py create_face_morphs / create_body_morphs *)
amt_create_morph ==
    /\ script = "add_morph_targets"
    /\ pc = "morph"
    /\ LET name == AmtMorphNames[step]
           offs == amt_morph_offsets(name, vertices)
       IN  /\ key_blocks' = amt_add_shape_key(key_blocks, vertices, name, offs)
           /\ morphs' = (name :> offs) @@ morphs
           /\ printed' = Append(printed, <<name, Cardinality(DOMAIN offs)>>)
    /\ IF step < Len(AmtMorphNames)
       THEN /\ step' = step + 1
            /\ pc' = pc
       ELSE /\ step' = 0
            /\ pc' = "export"
    /\ UNCHANGED <<script, ext_vars, charmorph_morphs, vertices, analysis, result, raised>>

(* export_with_morphs: rig, export the GLB and return True *)
amt_export ==
    /\ script = "add_morph_targets"
    /\ pc = "export"
    /\ result' = "True"
    /\ pc' = "done"
    /\ UNCHANGED <<script, ext_vars, charmorph_morphs, vertices, key_blocks, step, analysis, morphs, printed, raised>>

(* process_character: load the character and center it; a missing blend    *)
(* file or mesh returns False                                              *)
gam_load ==
    /\ script = "generate_avatar_meshes"
    /\ pc = "import"
    /\ \E has_mesh \in BOOLEAN :
         IF has_mesh
         THEN /\ pc' = IF charmorph_morphs.names # {} THEN "charmorph" ELSE "morph"
              /\ step' = 1
              /\ result' = result
         ELSE /\ pc' = "done"
              /\ step' = step
              /\ result' = "False"
    /\ UNCHANGED <<script, ext_vars, charmorph_morphs, vertices, key_blocks, analysis, morphs, printed, raised>>

(* process_character with CharMorph data: one MORPH_MAPPINGS entry; the    *)
(* only line written is the shape warning of apply_morph_delta             *)
gam_apply_mapping ==
    /\ script = "generate_avatar_meshes"
    /\ pc = "charmorph"
    /\ LET entry == MORPH_MAPPINGS[step]
       IN  /\ key_blocks' = apply_mapping(key_blocks, vertices, entry, charmorph_morphs)
           /\ printed' = IF MismatchWarning(key_blocks, vertices, entry, charmorph_morphs)
                         THEN Append(printed, <<entry.name, "Delta shape mismatch">>)
                         ELSE printed
    /\ IF step < Len(MORPH_MAPPINGS)
       THEN /\ step' = step + 1
            /\ pc' = pc
       ELSE /\ step' = 0
            /\ pc' = "export"
    /\ UNCHANGED <<script, ext_vars, charmorph_morphs, vertices, analysis, morphs, result, raised>>

(* create_all_procedural_morphs: one create_procedural_morph call and its  *)
(* "Created:" line                                                         *)
gam_create_morph ==
    /\ script = "generate_avatar_meshes"
    /\ pc = "morph"
    /\ LET params == ProceduralMorphs[step]
       IN  /\ key_blocks' = create_procedural_morph(key_blocks, vertices, params.name, params)
           /\ printed' = Append(printed, <<params.name>>)
    /\ IF step < Len(ProceduralMorphs)
       THEN /\ step' = step + 1
            /\ pc' = pc
       ELSE /\ step' = 0
            /\ pc' = "export"
    /\ UNCHANGED <<script, ext_vars, charmorph_morphs, vertices, analysis, morphs, result, raised>>

(* process_character: material, export_glb, return True *)
gam_export ==
    /\ script = "generate_avatar_meshes"
    /\ pc = "export"
    /\ result' = "True"
    /\ pc' = "done"
    /\ UNCHANGED <<script, ext_vars, charmorph_morphs, vertices, key_blocks, step, analysis, morphs, printed, raised>>

Next ==
    \/ import_model
    \/ clear_shape_keys
    \/ analyze_mesh
    \/ create_face_morph
    \/ create_body_morph
    \/ export_model
    \/ amt_load
    \/ amt_create_morph
    \/ amt_export
    \/ gam_load
    \/ gam_create_morph
    \/ gam_apply_mapping
    \/ gam_export

Spec ==
    Init /\ [][Next]_vars

(***************************************************************************)
(* The catalog processed in an arbitrary order. add_shape_key and          *)
(* create_procedural_morph are applied to the first MaxCatalog entries of  *)
(* the catalog of their script, one entry at a time, in any order.         *)
(***************************************************************************)
MaxCatalog == 4

OrderMeshes ==
    {RingMesh(s, d) : s \in Shapes, d \in {350, 400}}

OrderCatalog ==
    IF script = "add_morphs_to_existing"
    THEN {FaceMorphNames[k] : k \in 1..MaxCatalog}
    ELSE {ProceduralMorphs[k].name : k \in 1..MaxCatalog}

InitOrder ==
    /\ script \in {"add_morphs_to_existing", "generate_avatar_meshes"}
    /\ vertices \in OrderMeshes
    /\ key_blocks = <<>>
    /\ pc = "order"
    /\ step = 0
    /\ analysis = IF script = "add_morphs_to_existing" THEN face_locals(vertices) ELSE NoLocals
    /\ morphs = <<>>
    /\ printed = <<>>
    /\ result = "none"
    /\ raised = "none"
    /\ charmorph_morphs = NoLibrary
    /\ ExtIdle

(* one block of create_face_morphs, for any entry not yet processed *)
order_add_shape_key ==
    /\ script = "add_morphs_to_existing"
    /\ pc = "order"
    /\ \E name \in OrderCatalog \ KeyNames(key_blocks) :
         LET offs == face_morph_offsets(name, vertices, analysis)
         IN  /\ key_blocks' = add_shape_key(key_blocks, vertices, name, offs)
             /\ morphs' = (name :> offs) @@ morphs
             /\ printed' = Append(printed, <<name, Cardinality(DOMAIN offs)>>)
    /\ step' = step + 1
    /\ UNCHANGED <<script, ext_vars, charmorph_morphs, vertices, pc, analysis, result, raised>>

(* one pass of the loop of create_all_procedural_morphs, for any entry not *)
(* yet processed                                                           *)
order_create_procedural_morph ==
    /\ script = "generate_avatar_meshes"
    /\ pc = "order"
    /\ \E k \in 1..MaxCatalog :
         LET params == ProceduralMorphs[k]
         IN  /\ params.name \notin KeyNames(key_blocks)
             /\ key_blocks' = create_procedural_morph(key_blocks, vertices, params.name, params)
             /\ printed' = Append(printed, <<params.name>>)
    /\ step' = step + 1
    /\ UNCHANGED <<script, ext_vars, charmorph_morphs, vertices, pc, analysis, morphs, result, raised>>

NextOrder ==
    \/ order_add_shape_key
    \/ order_create_procedural_morph

SpecOrder ==
    InitOrder /\ [][NextOrder]_vars

(***************************************************************************)
(* Properties                                                              *)
(***************************************************************************)
(* extent of the mesh along coordinate c, straight from the vertices *)
ExtentOf(c) ==
    RSub(RMaxOf(Coords(vertices, c)), RMinOf(Coords(vertices, c)))

Analyzed ==
    analysis # NoLocals

(* the shape key the run created for morph n *)
KeyOf(n) ==
    LET k == CHOOSE k \in DOMAIN key_blocks : key_blocks[k].name = n
    IN  key_blocks[k]

(* C5: creating morph targets never changes a basis vertex position, and   *)
(* the stored position of every morph created so far is the basis position *)
(* plus that morph's own offset (the basis position itself where the morph *)
(* has no offset), never an accumulation over earlier morphs.              *)
C5_KeysRelativeToBasis ==
    \A n \in DOMAIN morphs :
        /\ n \in KeyNames(key_blocks)
        /\ \A i \in DOMAIN vertices :
              KeyOf(n).data[i] = IF i \in DOMAIN morphs[n]
                                 THEN VAdd(vertices[i], morphs[n][i])
                                 ELSE vertices[i]

C5_BasisUnchanged ==
    []C5_KeysRelativeToBasis /\ [][vertices' = vertices]_vars

(* two morphs with at least one nonzero offset each have been stored *)
C5_Witness ==
    /\ pc = "done"
    /\ result = "True"
    /\ \E n1, n2 \in DOMAIN morphs :
          /\ n1 # n2
          /\ \E i \in DOMAIN morphs[n1] : morphs[n1][i] # ZeroVec
          /\ \E i \in DOMAIN morphs[n2] : morphs[n2][i] # ZeroVec

(* C7: for a mesh with at least one vertex the detected up axis is Y       *)
(* exactly when the Y extent is strictly greater than both the Z extent    *)
(* and the X extent; otherwise, ties included, it is Z.                    *)
C7_UpAxis ==
    (Analyzed /\ vertices # <<>>) =>
        analysis.up_axis = IF RGt(ExtentOf(2), ExtentOf(3)) /\ RGt(ExtentOf(2), ExtentOf(1))
                           THEN "Y" ELSE "Z"

(* a tie between the Y and Z extents, both above X, detected as Z *)
C7_Witness ==
    /\ Analyzed
    /\ vertices # <<>>
    /\ ExtentOf(2) = ExtentOf(3)
    /\ RGt(ExtentOf(2), ExtentOf(1))
    /\ analysis.up_axis = "Z"

(* C8: the detected unit is Centimeter exactly when the extent along the   *)
(* detected up axis is strictly greater than 50, and Meter otherwise       *)
(* (180 gives cm, 1.8 gives m, exactly 50 gives m).                        *)
C8_Unit ==
    (Analyzed /\ vertices # <<>>) =>
        LET up == IF analysis.up_axis = "Y" THEN ExtentOf(2) ELSE ExtentOf(3)
        IN  /\ analysis.unit = IF RGt(up, R(50, 1)) THEN "cm" ELSE "m"
            /\ (up = R(180, 1) => analysis.unit = "cm")
            /\ (up = R(9, 5) => analysis.unit = "m")
            /\ (up = R(50, 1) => analysis.unit = "m")

(* a mesh exactly 50 high detected as meters *)
C8_Witness ==
    /\ Analyzed
    /\ vertices # <<>>
    /\ (IF analysis.up_axis = "Y" THEN ExtentOf(2) ELSE ExtentOf(3)) = R(50, 1)
    /\ analysis.unit = "m"

(***************************************************************************)
(* C1: a vertex whose height distance from a region's center is exactly    *)
(* the region's radius gets weight 0 and is absent from the morph's sparse *)
(* displacement map.                                                       *)
(***************************************************************************)
(* the height bands of create_face_morphs: center below the top of the     *)
(* head and radius, both in 1/1000 of face_height                          *)
FaceBands ==
    [ EyeSize |-> <<350, 200>>, EyeSpacing |-> <<350, 200>>, EyeTilt |-> <<350, 160>>,
      EyeDepth |-> <<350, 180>>, UpperEyelid |-> <<310, 80>>, LowerEyelid |-> <<390, 80>>,
      EyebrowHeight |-> <<250, 120>>, EyebrowArch |-> <<250, 120>>,
      NoseWidth |-> <<600, 150>>, NoseLength |-> <<600, 180>>, NoseBridge |-> <<480, 120>>,
      NoseTip |-> <<680, 100>>, NostrilFlare |-> <<660, 80>>, NoseProfile |-> <<600, 250>>,
      MouthWidth |-> <<750, 120>>, UpperLipSize |-> <<710, 60>>, LowerLipSize |-> <<790, 60>>,
      LipFullness |-> <<750, 96>>, MouthCorners |-> <<750, 96>>,
      JawWidth |-> <<950, 300>>, ChinLength |-> <<1030, 150>>, ChinProtrusion |-> <<950, 180>>,
      ChinCleft |-> <<990, 80>>, FaceLength |-> <<550, 480>>, ForeheadHeight |-> <<150, 150>>,
      CheekboneHeight |-> <<500, 150>> ]

(* the height bands of add_morph_targets.py: center below max_z and        *)
(* radius, both in 1/100 of a Blender unit                                 *)
AmtBands ==
    [ EyeSize |-> <<8, 4>>, EyeSpacing |-> <<8, 4>>, NoseWidth |-> <<12, 3>>,
      NoseLength |-> <<12, 4>>, JawWidth |-> <<24, 4>>, LipFullness |-> <<18, 2>>,
      CheekboneHeight |-> <<11, 3>> ]

(* the morph the run created last (the name in its last printed line) *)
JustCreated ==
    IF printed = <<>> THEN {} ELSE {printed[Len(printed)][1]}

(* the morphs the run has created so far *)
CreatedMorphs ==
    IF script = "generate_avatar_meshes"
    THEN KeyNames(key_blocks) \ {"Basis"}
    ELSE DOMAIN morphs

(* the height of a vertex as the running script measures it *)
VertexHeight(v) ==
    IF script = "add_morphs_to_existing" THEN get_height(analysis, v) ELSE v[3]

(* the region of generate_avatar_meshes.py morph n *)
ProceduralRegion(n) ==
    LET k == CHOOSE j \in DOMAIN ProceduralMorphs : ProceduralMorphs[j].name = n
    IN  gam_regions(gam_get_mesh_bounds(vertices))[ProceduralMorphs[k].region]

(* morph n of the running script has a height band with a center and a    *)
(* radius                                                                  *)
HasBand(n) ==
    CASE script = "add_morphs_to_existing" -> n \in DOMAIN FaceBands
      [] script = "add_morph_targets"      -> n \in DOMAIN AmtBands
      [] OTHER -> n \in CreatedMorphs /\ "z_center" \in ProceduralRegion(n).has

Band(n) ==
    CASE script = "add_morphs_to_existing" ->
            [ center |-> RSub(analysis.head_top,
                              RMul(analysis.face_height, R(FaceBands[n][1], 1000))),
              radius |-> RMul(analysis.face_height, R(FaceBands[n][2], 1000)) ]
      [] script = "add_morph_targets" ->
            [ center |-> RSub(get_mesh_bounds(vertices).max_co[3], R(AmtBands[n][1], 100)),
              radius |-> R(AmtBands[n][2], 100) ]
      [] OTHER ->
            [ center |-> ProceduralRegion(n).z_center,
              radius |-> ProceduralRegion(n).z_range ]

(* the vertices that lie exactly on the boundary of morph n's band *)
BoundaryVertices(n) ==
    IF HasBand(n)
    THEN LET b == Band(n)
         IN  {i \in DOMAIN vertices :
                 RAbs(RSub(VertexHeight(vertices[i]), b.center)) = b.radius}
    ELSE {}

(* C1: in the morph a step has just created (no later step changes it), a  *)
(* vertex exactly on the boundary of the morph's height band is not a key  *)
(* of the sparse map, and the morph's shape key leaves it at its basis     *)
(* position (weight 0).                                                    *)
C1_BoundaryExcluded ==
    \A n \in JustCreated : \A i \in BoundaryVertices(n) :
        /\ n \in DOMAIN morphs => i \notin DOMAIN morphs[n]
        /\ KeyOf(n).data[i] = vertices[i]

(* EyeSize has been created on a mesh with a centerline vertex exactly     *)
(* eye_zone_h away from eye_height, inside the lateral band, and the       *)
(* vertex is not in the map                                                *)
C1_Witness ==
    /\ script = "add_morphs_to_existing"
    /\ "EyeSize" \in DOMAIN morphs
    /\ \E i \in DOMAIN vertices :
          /\ i \in BoundaryVertices("EyeSize")
          /\ vertices[i][1] = analysis.center_x
          /\ RLt(get_width(vertices[i]), analysis.eye_zone_w)
          /\ RGt(analysis.eye_zone_h, Zero)
          /\ i \notin DOMAIN morphs["EyeSize"]

(***************************************************************************)
(* C2: for every morph and every vertex the falloff weight, the            *)
(* displacement divided by the morph's full displacement, is in [0, 1].    *)
(***************************************************************************)
(* the full displacement of the face morphs of create_face_morphs, as      *)
(* <<lateral, depth, height>> magnitudes in 1/100 of base_offset           *)
FaceFullOffsets ==
    [ EyeSize |-> <<0, 0, 100>>, EyeSpacing |-> <<70, 0, 0>>, EyeTilt |-> <<0, 0, 100>>,
      EyeDepth |-> <<0, 130, 0>>, UpperEyelid |-> <<0, 0, 100>>, LowerEyelid |-> <<0, 35, 70>>,
      EyebrowHeight |-> <<0, 0, 130>>, EyebrowArch |-> <<0, 0, 100>>,
      NoseWidth |-> <<150, 0, 0>>, NoseLength |-> <<0, 130, 0>>, NoseBridge |-> <<70, 0, 0>>,
      NoseTip |-> <<0, 0, 100>>, NostrilFlare |-> <<100, 0, 0>>, NoseProfile |-> <<0, 150, 0>>,
      MouthWidth |-> <<100, 0, 0>>, UpperLipSize |-> <<0, 70, 35>>,
      LowerLipSize |-> <<0, 70, 35>>, LipFullness |-> <<0, 70, 0>>,
      MouthCorners |-> <<0, 0, 100>>, JawWidth |-> <<100, 0, 0>>, ChinLength |-> <<0, 0, 100>>,
      ChinProtrusion |-> <<0, 130, 0>>, ChinCleft |-> <<0, 70, 0>>, FaceLength |-> <<0, 0, 60>>,
      ForeheadHeight |-> <<0, 0, 130>>, CheekboneHeight |-> <<30, 0, 70>> ]

(* the full displacement of the add_morph_targets.py morphs that have one, *)
(* as <<x, y, z>> magnitudes in 1/1000 of a Blender unit                   *)
AmtFullOffsets ==
    [ EyeSpacing |-> <<10, 0, 0>>, NoseLength |-> <<0, 20, 0>>, ChinLength |-> <<0, 0, 20>>,
      LipFullness |-> <<0, 10, 0>>, CheekboneHeight |-> <<5, 0, 10>> ]

(* the magnitudes of morph n's full displacement along x, y and z; the     *)
(* zero vector for a morph that has no fixed full displacement (offsets    *)
(* proportional to the distance from the centerline)                       *)
FullOffset(n) ==
    CASE script = "add_morphs_to_existing" /\ n \in DOMAIN FaceFullOffsets ->
            LET f == FaceFullOffsets[n]
                m(k) == RMul(analysis.base_offset, R(k, 100))
            IN  make_offset(analysis, m(f[1]), m(f[2]), m(f[3]))
      [] script = "add_morph_targets" /\ n \in DOMAIN AmtFullOffsets ->
            LET f == AmtFullOffsets[n]
            IN  <<R(f[1], 1000), R(f[2], 1000), R(f[3], 1000)>>
      [] script = "generate_avatar_meshes" /\ n \in CreatedMorphs ->
            LET k == CHOOSE j \in DOMAIN ProceduralMorphs : ProceduralMorphs[j].name = n
                p == ProceduralMorphs[k]
            IN  CASE p.direction = "x" -> <<RAbs(p.amount), Zero, Zero>>
                  [] p.direction = "y" -> <<Zero, RAbs(p.amount), Zero>>
                  [] p.direction = "z" -> <<Zero, Zero, RAbs(p.amount)>>
                  [] OTHER -> ZeroVec
      [] OTHER -> ZeroVec

(* the displacement of vertex i in morph n: stored position - basis *)
Displacement(n, i) ==
    VSub(KeyOf(n).data[i], vertices[i])

(* weight in [0, 1]: no component of the displacement exceeds the          *)
(* corresponding component of the full displacement                        *)
WeightInUnitInterval(n) ==
    LET full == FullOffset(n)
    IN  \A i \in DOMAIN vertices :
            full # ZeroVec =>
                \A c \in 1..3 : RLe(RAbs(Displacement(n, i)[c]), full[c])

(* C2: the morph a step has just created gives every vertex a weight in    *)
(* [0, 1]                                                                  *)
C2_WeightInUnitInterval ==
    \A n \in JustCreated : WeightInUnitInterval(n)

(***************************************************************************)
(* C3: on a mesh that is mirror-symmetric about x = 0, a laterally         *)
(* symmetric morph displaces mirror vertices by opposite x and equal y and *)
(* z; a vertex on the centerline gets x displacement 0.                    *)
(***************************************************************************)
(* vertex j is the mirror image of vertex i (a centerline vertex is its    *)
(* own mirror)                                                             *)
Mirror(i, j) ==
    vertices[j] = <<RNeg(vertices[i][1]), vertices[i][2], vertices[i][3]>>

BilaterallySymmetric ==
    \A i \in DOMAIN vertices : \E j \in DOMAIN vertices : Mirror(i, j)

MirroredDisplacement(n) ==
    \A i \in DOMAIN vertices : \A j \in DOMAIN vertices :
        Mirror(i, j) =>
            /\ Displacement(n, i)[1] = RNeg(Displacement(n, j)[1])
            /\ Displacement(n, i)[2] = Displacement(n, j)[2]
            /\ Displacement(n, i)[3] = Displacement(n, j)[3]

(* C3: every morph that add_morphs_to_existing.py creates on a bilaterally *)
(* symmetric mesh displaces mirror vertices by mirrored offsets, so a      *)
(* centerline vertex is not moved along x                                  *)
C3_BilateralSymmetry ==
    (script = "add_morphs_to_existing" /\ BilaterallySymmetric) =>
        \A n \in JustCreated : MirroredDisplacement(n)

(***************************************************************************)
(* C4: generating the morphs on the uniformly scaled mesh k.M gives, for   *)
(* every morph, the same affected vertex indices as on M and k times the   *)
(* displacements.                                                          *)
(***************************************************************************)
ScaleFactors ==
    {R(2, 1), R(100, 1)}

ScaleMesh(k, vs) ==
    [i \in DOMAIN vs |-> VScale(k, vs[i])]

(* the sparse map of morph n of add_morphs_to_existing.py on mesh vs *)
MorphOn(n, vs) ==
    IF n \in DOMAIN FaceBands
    THEN face_morph_offsets(n, vs, face_locals(vs))
    ELSE body_morph_offsets(n, vs)

(* C4: for every morph add_morphs_to_existing.py creates on the mesh and   *)
(* every scale k, the morph generated on the scaled mesh affects the same  *)
(* vertex indices, with displacements k times as large                     *)
C4_ScaleInvariant ==
    script = "add_morphs_to_existing" =>
        \A n \in JustCreated : \A k \in ScaleFactors :
            LET scaled == MorphOn(n, ScaleMesh(k, vertices))
            IN  /\ DOMAIN scaled = DOMAIN morphs[n]
                /\ \A i \in DOMAIN scaled : scaled[i] = VScale(k, morphs[n][i])

(***************************************************************************)
(* C9: analysing a mesh with zero vertices ends in an EmptyMeshError and   *)
(* analysing a mesh with a zero extent ends in a DegenerateGeometryError;  *)
(* the run aborts and no morph target is produced.                         *)
(***************************************************************************)
EmptyMesh ==
    vertices = <<>>

HasZeroExtent ==
    vertices # <<>> /\ \E c \in 1..3 : ExtentOf(c) = Zero

(* the run got as far as a mesh: the extension was supported and a mesh    *)
(* object was found                                                        *)
MeshLoaded ==
    raised # "ValueError" /\ result # "False"

(* the shape keys a complete run of the script leaves on the mesh *)
ExpectedKeys ==
    {"Basis"} \cup
    CASE script = "add_morphs_to_existing" ->
            {FaceMorphNames[k] : k \in DOMAIN FaceMorphNames}
                \cup {BodyMorphNames[k] : k \in DOMAIN BodyMorphNames}
      [] script = "add_morph_targets" -> {AmtMorphNames[k] : k \in DOMAIN AmtMorphNames}
      [] OTHER -> {ProceduralMorphs[k].name : k \in DOMAIN ProceduralMorphs}

BandOutside(n) ==
    /\ vertices # <<>>
    /\ HasBand(n)
    /\ LET b  == Band(n)
           hs == {VertexHeight(vertices[i]) : i \in DOMAIN vertices}
       IN  \/ RLt(RAdd(b.center, b.radius), RMinOf(hs))
           \/ RGt(RSub(b.center, b.radius), RMaxOf(hs))

(* the morph target of n is empty: no vertex is moved *)
EmptyTarget(n) ==
    /\ n \in DOMAIN morphs => morphs[n] = <<>>
    /\ KeyOf(n).data = [i \in DOMAIN vertices |-> vertices[i]]

(* the warnings a finished run returns: the scripts return True or False,  *)
(* never a list                                                            *)
ReturnedWarnings ==
    IF result \in {"none", "True", "False"} THEN {} ELSE {result}

KnownDirections ==
    {"x", "x_scale", "y", "z", "scale"}

UnknownRule(params, vs) ==
    \/ params.region \notin DOMAIN gam_regions(gam_get_mesh_bounds(vs))
    \/ params.direction \notin KnownDirections

(* the MORPH_MAPPINGS entries process_character has gone through *)
ProcessedEntries ==
    IF script # "generate_avatar_meshes" \/ charmorph_morphs.names = {}
    THEN {}
    ELSE IF pc = "charmorph" THEN 1..(step - 1)
    ELSE IF pc \in {"export", "done"} /\ result # "False" THEN DOMAIN MORPH_MAPPINGS
    ELSE {}

(* the entries none of whose sources is loaded: the procedural fallback *)
FallbackEntries ==
    {k \in DOMAIN MORPH_MAPPINGS :
        \A j \in DOMAIN MORPH_MAPPINGS[k].sources :
            MORPH_MAPPINGS[k].sources[j][1] \notin charmorph_morphs.names}

C11_UnknownRuleRejected ==
    \A k \in ProcessedEntries \cap FallbackEntries :
        UnknownRule(FallbackParams, vertices) =>
            /\ raised = "ConfigurationError"
            /\ MORPH_MAPPINGS[k].name \notin KeyNames(key_blocks)

(***************************************************************************)
(* C12: once process_model has gone through a mesh, whatever shape keys    *)
(* the file carried (some under a catalog name), the mesh holds Basis and  *)
(* exactly one key per catalog morph name, the morphs without any moved    *)
(* vertex included, and no other key; on the way there the keys are Basis  *)
(* (once a key exists) and one key per morph created so far                *)
(***************************************************************************)
NoDuplicateKey ==
    Len(key_blocks) = Cardinality(KeyNames(key_blocks))

C12_ExactlyTheCatalogKeys ==
    (script = "add_morphs_to_existing" /\ MeshLoaded) =>
        /\ pc \in {"analyze", "face", "body", "export", "done"} =>
              /\ NoDuplicateKey
              /\ KeyNames(key_blocks) \ {"Basis"} = DOMAIN morphs
        /\ pc \in {"export", "done"} =>
              /\ KeyNames(key_blocks) = ExpectedKeys
              /\ Len(key_blocks) = 1 + Len(FaceMorphNames) + Len(BodyMorphNames)

(* a finished run whose mesh holds the whole catalog although some morph   *)
(* moved no vertex                                                         *)
C12_Witness ==
    /\ script = "add_morphs_to_existing"
    /\ pc = "done"
    /\ result = "True"
    /\ vertices # <<>>
    /\ KeyNames(key_blocks) = ExpectedKeys
    /\ \E n \in DOMAIN morphs : morphs[n] = <<>>
    /\ \E n \in DOMAIN morphs : morphs[n] # <<>>

(***************************************************************************)
(* C13: the width band of a morph is measured from the centerline of the   *)
(* mesh, also when center_x is not 0: a vertex in the height band of       *)
(* EyeSpacing is in its sparse map exactly when                            *)
(* inner_limit < |v.x - center_x| < eye_zone_w                             *)
(***************************************************************************)
WidthFromCenter(v) ==
    RAbs(RSub(v[1], analysis.center_x))

C13_WidthBandAboutCenter ==
    (script = "add_morphs_to_existing" /\ "EyeSpacing" \in JustCreated) =>
        LET a == analysis
            inner_limit == RMul(a.face_width, R(10, 100))
        IN  \A i \in DOMAIN vertices :
                LET dh == RAbs(RSub(get_height(a, vertices[i]), a.eye_height))
                    vw == WidthFromCenter(vertices[i])
                IN  (i \in DOMAIN morphs["EyeSpacing"]) <=>
                        (RLt(dh, a.eye_zone_h) /\ RGt(vw, inner_limit) /\ RLt(vw, a.eye_zone_w))

(***************************************************************************)
(* C14: on a cylinder centered at center_x, Build_Heavy displaces every    *)
(* vertex v by exactly 0.03 * (v.x - center_x) along x; no vertex is       *)
(* skipped                                                                 *)
(***************************************************************************)
C14_HeavyScalesFromCenterline ==
    (/\ script \in {"add_morphs_to_existing", "add_morph_targets"}
     /\ vertices \in CylinderMeshes
     /\ "Build_Heavy" \in JustCreated) =>
        LET center_x == Center(get_mesh_bounds(vertices), 1)
        IN  \A i \in DOMAIN vertices :
                Displacement("Build_Heavy", i)[1]
                    = RMul(R(3, 100), RSub(vertices[i][1], center_x))

(***************************************************************************)
(* C15: every entry stored in the sparse displacement map of a morph is a  *)
(* nonzero vector; a vertex whose computed displacement is 0 (one on the   *)
(* centerline of a morph scaled by lateral distance) is absent             *)
(***************************************************************************)
C15_StoredOffsetsNonZero ==
    \A n \in JustCreated \cap DOMAIN morphs :
        \A i \in DOMAIN morphs[n] : morphs[n][i] # ZeroVec

(***************************************************************************)
(* C16: the up axis is determined once per mesh and used by every morph:   *)
(* the body morphs select vertices by their height along the axis the face *)
(* morphs detected, so on a Y-up mesh the body region is bounded by Y. For *)
(* Build_Slim and Build_Heavy: a vertex is in the map exactly when it is   *)
(* below the head along the detected axis and beyond min_dx from the       *)
(* centerline                                                              *)
(***************************************************************************)
BelowHeadAlongUpAxis(v) ==
    RLt(get_height(analysis, v),
        RSub(analysis.head_top, RMul(analysis.mesh_height, R(125, 1000))))

C16_BodyUsesDetectedAxis ==
    (script = "add_morphs_to_existing" /\ JustCreated \subseteq {"Build_Slim", "Build_Heavy"}) =>
        \A n \in JustCreated : \A i \in DOMAIN vertices :
            (i \in DOMAIN morphs[n]) <=>
                /\ BelowHeadAlongUpAxis(vertices[i])
                /\ RGt(RAbs(RSub(vertices[i][1], analysis.center_x)),
                       RMul(analysis.mesh_width, R(12, 100)))

(***************************************************************************)
(* C17: the displacement map produced for a morph name does not depend on  *)
(* the order in which the catalog entries are processed: in whatever order *)
(* the entries were processed so far, every key on the mesh holds the      *)
(* positions it holds after processing the catalog in its written order    *)
(***************************************************************************)
RECURSIVE InCatalogOrder(_)
InCatalogOrder(k) ==
    IF k = 0 THEN <<>>
    ELSE LET prev == InCatalogOrder(k - 1)
         IN  IF script = "add_morphs_to_existing"
             THEN add_shape_key(prev, vertices, FaceMorphNames[k],
                                face_morph_offsets(FaceMorphNames[k], vertices, analysis))
             ELSE create_procedural_morph(prev, vertices, ProceduralMorphs[k].name,
                                          ProceduralMorphs[k])

DataIn(keys, n) ==
    keys[CHOOSE k \in DOMAIN keys : keys[k].name = n].data

C17_OrderIndependent ==
    pc = "order" =>
        LET written == InCatalogOrder(MaxCatalog)
        IN  \A n \in KeyNames(key_blocks) :
                DataIn(key_blocks, n) = DataIn(written, n)

(* the whole catalog was processed, not in its written order, and two of   *)
(* its morphs move the same vertex                                         *)
C17_Witness ==
    /\ pc = "order"
    /\ KeyNames(key_blocks) = {"Basis"} \cup OrderCatalog
    /\ key_blocks[Len(key_blocks)].name = InCatalogOrder(MaxCatalog)[2].name
    /\ \E i \in DOMAIN vertices :
          /\ key_blocks[2].data[i] # vertices[i]
          /\ key_blocks[3].data[i] # vertices[i]

(***************************************************************************)
(* C18: for every mesh with positive height H along the up axis,           *)
(* face_height = 0.10 H, face_width = 0.80 face_height, head_base =        *)
(* head_top - 0.125 H, every landmark is head_top - k face_height (k =     *)
(* 0.15 forehead, 0.25 eyebrow, 0.35 eye, 0.50 cheek, 0.60 nose, 0.75      *)
(* mouth, 0.95 chin), and head_top > forehead > eyebrow > eye > cheek >    *)
(* nose > mouth > chin > head_base                                         *)
(***************************************************************************)
UpCoord ==
    IF analysis.up_axis = "Y" THEN 2 ELSE 3

Landmarks ==
    << analysis.head_top, analysis.forehead_height, analysis.eyebrow_height,
       analysis.eye_height, analysis.cheek_height, analysis.nose_height,
       analysis.mouth_height, analysis.chin_height, analysis.head_base >>

LandmarkFactors ==
    << R(0, 1), R(15, 100), R(25, 100), R(35, 100), R(50, 100), R(60, 100),
       R(75, 100), R(95, 100) >>

C18_LandmarksOrdered ==
    (Analyzed /\ vertices # <<>> /\ RGt(ExtentOf(UpCoord), Zero)) =>
        LET H   == ExtentOf(UpCoord)
            top == RMaxOf(Coords(vertices, UpCoord))
            fh  == RMul(R(10, 100), H)
        IN  /\ analysis.face_height = fh
            /\ analysis.face_width = RMul(R(80, 100), fh)
            /\ analysis.head_base = RSub(top, RMul(R(125, 1000), H))
            /\ \A k \in DOMAIN LandmarkFactors :
                  Landmarks[k] = RSub(top, RMul(fh, LandmarkFactors[k]))
            /\ \A k \in 1..(Len(Landmarks) - 1) : RGt(Landmarks[k], Landmarks[k + 1])

(* a mesh of positive height has been analysed, with its head top away     *)
(* from the origin of the up axis                                          *)
C18_Witness ==
    /\ Analyzed
    /\ vertices # <<>>
    /\ RGt(ExtentOf(UpCoord), Zero)
    /\ analysis.up_axis = "Y"
    /\ analysis.unit = "cm"
    /\ RGt(analysis.chin_height, analysis.head_base)

(***************************************************************************)
(* C19: process_model creates exactly 26 morph targets on the main mesh,   *)
(* 23 facial ones from create_face_morphs and 3 body ones from             *)
(* create_body_morphs, each under a distinct name                          *)
(***************************************************************************)
MorphKeys ==
    SelectSeq(key_blocks, LAMBDA kb : kb.name # "Basis")

C19_TwentySixMorphs ==
    (script = "add_morphs_to_existing" /\ MeshLoaded) =>
        /\ (pc = "body" /\ step = 1) => Len(MorphKeys) = 23
        /\ pc \in {"export", "done"} =>
              /\ Len(MorphKeys) = 26
              /\ Cardinality(KeyNames(MorphKeys)) = 26
              /\ Cardinality(KeyNames(MorphKeys) \ {BodyMorphNames[k] : k \in DOMAIN BodyMorphNames})
                    = 23

(***************************************************************************)
(* C20: for every catalog name whose MORPH_MAPPINGS entry lists several    *)
(* CharMorph sources, the shape key process_character creates combines     *)
(* them: its positions are the basis plus the sum, over the listed sources *)
(* that are loaded, of weight times the delta of that source               *)
(***************************************************************************)
RECURSIVE WeightedDeltaSum(_, _, _)
WeightedDeltaSum(sources, j, i) ==
    IF j = 0 THEN ZeroVec
    ELSE LET rest == WeightedDeltaSum(sources, j - 1, i)
         IN  IF sources[j][1] \in charmorph_morphs.names
             THEN VAdd(rest, VScale(sources[j][2],
                                    LoadedDelta(charmorph_morphs, sources[j][1]).rows[i]))
             ELSE rest

(* every loaded array fits the mesh *)
LibraryFitsMesh ==
    DeltaShapeOk(DeltaArray(1, charmorph_morphs.ndim, charmorph_morphs.nrows), Len(vertices))

C20_SourcesCombined ==
    LibraryFitsMesh =>
        \A k \in ProcessedEntries \ FallbackEntries :
            Len(MORPH_MAPPINGS[k].sources) > 1 =>
                \A i \in DOMAIN vertices :
                    KeyOf(MORPH_MAPPINGS[k].name).data[i]
                        = VAdd(vertices[i],
                               WeightedDeltaSum(MORPH_MAPPINGS[k].sources,
                                                Len(MORPH_MAPPINGS[k].sources), i))

(***************************************************************************)
(* musicscrap: scraper/music_scraper.py                                    *)
(***************************************************************************)
(* a pandas DataFrame as the sequence of its rows *)
DataFrame(source, titles) ==
    [kind |-> "DataFrame",
     rows |-> [k \in DOMAIN titles |-> [Source |-> source, Titles |-> titles[k]]]]

EmptyDataFrame ==
    [kind |-> "DataFrame", rows |-> <<>>]

(* the None of Python, and the place of a value that was never produced *)
PyNone ==
    [kind |-> "None", rows |-> <<>>]

NoValue ==
    [kind |-> "none", rows |-> <<>>]

(* a Python list *)
List(items) ==
    [kind |-> "list", rows |-> items]

(* bool(x) of Python: None is false; the truth value of a DataFrame,       *)
(* empty or not, is ambiguous and pandas raises ValueError                 *)
TruthValue(x) ==
    IF x.kind = "None" THEN "False" ELSE "ValueError"

(* pd.concat([a, b], ignore_index=True) *)
concat(a, b) ==
    [kind |-> "DataFrame", rows |-> a.rows \o b.rows]

(* df.fillna('-') *)
fillna(df) ==
    [df EXCEPT !.rows = [k \in DOMAIN df.rows |->
        [c \in DOMAIN df.rows[k] |-> IF df.rows[k][c] = "NaN" THEN "-" ELSE df.rows[k][c]]]]

(* the page BMI answers with: the driver may fail; otherwise the work      *)
(* titles and the number of table-responsive containers found              *)
BmiPages ==
    {[error |-> TRUE, titles |-> <<>>, containers |-> 0]}
    \cup {[error |-> FALSE, titles |-> t, containers |-> c] :
              t \in {<<>>, <<"Test Song">>, <<"Test Song", "Test Song Two">>}, c \in 0..2}

(* _scrape_bmi: None without titles; the DataFrame constructor raises      *)
(* ValueError when titles and writers differ in length; any exception      *)
(* becomes BMIScrapingError                                                *)
scrape_bmi(page) ==
    IF page.error
    THEN [result |-> NoValue, exception |-> "BMIScrapingError"]
    ELSE IF page.titles = <<>>
    THEN [result |-> PyNone, exception |-> "none"]
    ELSE IF Len(page.titles) # page.containers
    THEN [result |-> NoValue, exception |-> "BMIScrapingError"]
    ELSE [result |-> DataFrame("BMI", page.titles), exception |-> "none"]

(* what requests.get does: it returns a response or raises *)
GetOutcomes ==
    {"response", "ConnectionError", "Timeout", "Exception"}

(* the subclasses of requests.RequestException *)
RequestExceptions ==
    {"ConnectionError", "Timeout", "HTTPError"}

(* data.get('result') of the response *)
AscapData ==
    {PyNone, List(<<>>), List(<<"Test Song">>), List(<<"Test Song", "Test Song Two">>)}

(* _scrape_ascap *)
scrape_ascap(get, status_ok, data) ==
    LET exc == IF get # "response" THEN get
               ELSE IF ~status_ok THEN "HTTPError"
               ELSE "none"
    IN  IF exc \in RequestExceptions
        THEN [result |-> NoValue, exception |-> "NetworkError"]
        ELSE IF exc # "none"
        THEN [result |-> NoValue, exception |-> "ASCAPApiError"]
        ELSE IF data.kind = "None" \/ data.rows = <<>>
        THEN [result |-> PyNone, exception |-> "none"]
        ELSE [result |-> DataFrame("ASCAP", data.rows), exception |-> "none"]

(* the statements of scrape_music_data after the gather *)
combine_results(bmi_results, ascap_results) ==
    LET both == IF TruthValue(bmi_results) = "False" THEN bmi_results ELSE ascap_results
    IN  IF TruthValue(bmi_results) = "ValueError"
        THEN [result |-> NoValue, exception |-> "ValueError"]
        ELSE IF TruthValue(both) = "ValueError"
        THEN [result |-> NoValue, exception |-> "ValueError"]
        ELSE IF TruthValue(both) = "True"
        THEN [result |-> fillna(concat(bmi_results, ascap_results)), exception |-> "none"]
        ELSE IF TruthValue(bmi_results) = "True"
        THEN [result |-> fillna(bmi_results), exception |-> "none"]
        ELSE IF TruthValue(ascap_results) = "ValueError"
        THEN [result |-> NoValue, exception |-> "ValueError"]
        ELSE IF TruthValue(ascap_results) = "True"
        THEN [result |-> fillna(ascap_results), exception |-> "none"]
        ELSE [result |-> fillna(EmptyDataFrame), exception |-> "none"]

Requests ==
    {[songtitle |-> "Test Song", performer |-> q] : q \in {"", "Jane Smith"}}

(* everything scrape_music_data never touches *)
scraper_frame ==
    <<script, morph_vars, score_vars, anim_vars, batch_vars, index_vars>>

InitScraper ==
    /\ script = "music_scraper"
    /\ pc = "start"
    /\ request \in Requests
    /\ bmi_task = NoTask
    /\ ascap_task = NoTask
    /\ result = NoValue
    /\ raised = "none"
    /\ MorphIdle
    /\ ScoreIdle
    /\ AnimIdle
    /\ BatchIdle
    /\ IndexIdle

(* the two run_in_executor calls; the pool has two workers *)
scrape_submit ==
    /\ script = "music_scraper"
    /\ pc = "start"
    /\ bmi_task' = [state |-> "running"]
    /\ ascap_task' = [state |-> "running"]
    /\ pc' = "gather"
    /\ UNCHANGED <<scraper_frame, request, result, raised>>

(* the worker thread of _scrape_bmi finishes *)
bmi_finish ==
    /\ bmi_task.state = "running"
    /\ \E page \in BmiPages :
         bmi_task' = [state |-> "finished", result |-> scrape_bmi(page).result,
                      exception |-> scrape_bmi(page).exception]
    /\ UNCHANGED <<scraper_frame, request, ascap_task, pc, result, raised>>

(* the worker thread of _scrape_ascap finishes *)
ascap_finish ==
    /\ ascap_task.state = "running"
    /\ \E get \in GetOutcomes, status_ok \in BOOLEAN, data \in AscapData :
         LET r == scrape_ascap(get, status_ok, data)
         IN  ascap_task' = [state |-> "finished",
                            http |-> IF get # "response" THEN get
                                     ELSE IF status_ok THEN "ok" ELSE "HTTPError",
                            result |-> r.result, exception |-> r.exception]
    /\ UNCHANGED <<scraper_frame, request, bmi_task, pc, result, raised>>

TaskFailed(task) ==
    task.state = "finished" /\ task.exception # "none"

(* asyncio.gather without return_exceptions: the first exception of a task *)
(* is propagated at once, the other task keeps running; the except clause  *)
(* turns it into ScrapingError                                             *)
gather_raises ==
    /\ script = "music_scraper"
    /\ pc = "gather"
    /\ TaskFailed(bmi_task) \/ TaskFailed(ascap_task)
    /\ raised' = "ScrapingError"
    /\ pc' = "done"
    /\ UNCHANGED <<scraper_frame, scraper_vars, result>>

(* both tasks returned: the results are combined; an exception of the      *)
(* combination is turned into ScrapingError as well                        *)
gather_returns ==
    /\ script = "music_scraper"
    /\ pc = "gather"
    /\ bmi_task.state = "finished" /\ ascap_task.state = "finished"
    /\ ~TaskFailed(bmi_task) /\ ~TaskFailed(ascap_task)
    /\ LET r == combine_results(bmi_task.result, ascap_task.result)
       IN  IF r.exception = "none"
           THEN /\ result' = r.result
                /\ raised' = raised
           ELSE /\ result' = result
                /\ raised' = "ScrapingError"
    /\ pc' = "done"
    /\ UNCHANGED <<scraper_frame, scraper_vars>>

NextScraper ==
    \/ scrape_submit
    \/ bmi_finish
    \/ ascap_finish
    \/ gather_raises
    \/ gather_returns

SpecScraper ==
    InitScraper /\ [][NextScraper]_vars

(***************************************************************************)
(* C21: when the BMI scrape returns at least one row and the ASCAP scrape  *)
(* returns no result, scrape_music_data returns a non-empty result whose   *)
(* rows are the BMI rows instead of raising; in general it returns the     *)
(* rows of the sources that answered, BMI before ASCAP, and an empty       *)
(* result when neither answered                                            *)
(***************************************************************************)
RowsOf(x) ==
    IF x.kind = "DataFrame" THEN x.rows ELSE <<>>

C21_ReturnsRowsOfAnswers ==
    (/\ script = "music_scraper" /\ pc = "done"
     /\ bmi_task.state = "finished" /\ ascap_task.state = "finished"
     /\ ~TaskFailed(bmi_task) /\ ~TaskFailed(ascap_task)) =>
        /\ raised = "none"
        /\ result.kind = "DataFrame"
        /\ result.rows = RowsOf(bmi_task.result) \o RowsOf(ascap_task.result)

(***************************************************************************)
(* C22: whenever the HTTP request made by _scrape_ascap raises an          *)
(* exception of any kind, _scrape_ascap raises ASCAPApiError; it never     *)
(* returns a result or raises another error type                           *)
(***************************************************************************)
C22_RequestErrorIsASCAPApiError ==
    (ascap_task.state = "finished" /\ ascap_task.http # "ok") =>
        /\ ascap_task.exception = "ASCAPApiError"
        /\ ascap_task.result = NoValue

(***************************************************************************)
(* C28: scrape_music_data completes (returns or raises) only after both    *)
(* scrape tasks it submitted have finished; it never raises ScrapingError  *)
(* while one of them is still running                                      *)
(***************************************************************************)
C28_CompletesAfterBothTasks ==
    (script = "music_scraper" /\ pc = "done") =>
        bmi_task.state = "finished" /\ ascap_task.state = "finished"

(***************************************************************************)
(* musicscrap: metadata_score.py and the handler score_single_song         *)
(***************************************************************************)
(* the table with a missing ISWC costing 20 instead of 25 *)
ISSUE_DEFINITIONS_iswc_20 ==
    [MISSING_ISWC |-> [severity |-> "critical", deduction |-> 20, revenue_impact |-> 15],
     MISSING_ISRC |-> [severity |-> "high", deduction |-> 20, revenue_impact |-> 10],
     TITLE_MISMATCH |-> [severity |-> "medium", deduction |-> 10, revenue_impact |-> 5],
     CONFLICTING_SPLITS |-> [severity |-> "critical", deduction |-> 20, revenue_impact |-> 20],
     RECORDING_NOT_LINKED |-> [severity |-> "high", deduction |-> 15, revenue_impact |-> 10],
     MISSING_PUBLISHER |-> [severity |-> "high", deduction |-> 15, revenue_impact |-> 8],
     MISSING_PRO_REGISTRATION |-> [severity |-> "critical", deduction |-> 25, revenue_impact |-> 25],
     MISSING_MLC_REGISTRATION |-> [severity |-> "high", deduction |-> 15, revenue_impact |-> 12],
     ARTIST_NAME_INCONSISTENT |-> [severity |-> "low", deduction |-> 5, revenue_impact |-> 2],
     WRITER_NAME_INCONSISTENT |-> [severity |-> "medium", deduction |-> 10, revenue_impact |-> 5],
     MULTIPLE_VERSIONS_UNLINKED |-> [severity |-> "medium", deduction |-> 10, revenue_impact |-> 8],
     MISSING_TERRITORY_REGISTRATION |-> [severity |-> "medium", deduction |-> 10, revenue_impact |-> 10]]

(* severity, deduction and revenue_impact (in hundredths) of every issue   *)
ISSUE_DEFINITIONS ==
    [MISSING_ISWC |-> [severity |-> "critical", deduction |-> 25, revenue_impact |-> 15],
     MISSING_ISRC |-> [severity |-> "high", deduction |-> 20, revenue_impact |-> 10],
     TITLE_MISMATCH |-> [severity |-> "medium", deduction |-> 10, revenue_impact |-> 5],
     CONFLICTING_SPLITS |-> [severity |-> "critical", deduction |-> 20, revenue_impact |-> 20],
     RECORDING_NOT_LINKED |-> [severity |-> "high", deduction |-> 15, revenue_impact |-> 10],
     MISSING_PUBLISHER |-> [severity |-> "high", deduction |-> 15, revenue_impact |-> 8],
     MISSING_PRO_REGISTRATION |-> [severity |-> "critical", deduction |-> 25, revenue_impact |-> 25],
     MISSING_MLC_REGISTRATION |-> [severity |-> "high", deduction |-> 15, revenue_impact |-> 12],
     ARTIST_NAME_INCONSISTENT |-> [severity |-> "low", deduction |-> 5, revenue_impact |-> 2],
     WRITER_NAME_INCONSISTENT |-> [severity |-> "medium", deduction |-> 10, revenue_impact |-> 5],
     MULTIPLE_VERSIONS_UNLINKED |-> [severity |-> "medium", deduction |-> 10, revenue_impact |-> 8],
     MISSING_TERRITORY_REGISTRATION |-> [severity |-> "medium", deduction |-> 10, revenue_impact |-> 10]]

(* _create_issue: the issue of a code, with the defaults of an unknown one *)
create_issue(code) ==
    IF code \in DOMAIN ISSUE_DEFINITIONS
    THEN [code |-> code, severity |-> ISSUE_DEFINITIONS[code].severity,
          deduction |-> ISSUE_DEFINITIONS[code].deduction]
    ELSE [code |-> code, severity |-> "medium", deduction |-> 5]

(* str.lower on the artist names in use *)
lower(name) ==
    CASE name = "Test Artist" -> "test artist"
      [] name = "TEST ARTIST" -> "test artist"
      [] name = "Other Artist" -> "other artist"
      [] OTHER -> name

(* bool() of a list or None *)
Truthy(x) ==
    x.kind # "None" /\ x.rows # <<>>

(* the request bodies: title is present, the other fields may be empty *)
SongData ==
    [title : {"Test Song"}, artist : {"", "Test Artist"}, iswc : {"", "T-123"},
     isrc : {"", "USABC123"}, publisher : {"", "Test Pub"}]

(* the musicbrainz entry of cross_check_results["sources"] *)
MusicBrainzData ==
    {[present |-> FALSE, found |-> FALSE, error |-> FALSE, recordings |-> <<>>],
     [present |-> TRUE, found |-> FALSE, error |-> TRUE, recordings |-> <<>>],
     [present |-> TRUE, found |-> FALSE, error |-> FALSE, recordings |-> <<>>],
     [present |-> TRUE, found |-> TRUE, error |-> FALSE, recordings |-> <<"rec-1">>]}

(* what cross_check_song returns; None when no cross-check was asked for   *)
CrossCheckResults ==
    {[kind |-> "None"]}
    \cup [kind : {"dict"},
          found_isrcs : {<<>>, <<"USABC123">>},
          found_iswcs : {<<>>, <<"T-123">>},
          title_variations : {<<>>, <<"Test Song (Live)">>},
          found_artists : {<<>>, <<"TEST ARTIST">>, <<"Test Artist", "Other Artist">>},
          musicbrainz : MusicBrainzData]

(* what scrape_songview returns: a list of rows, possibly empty; None is   *)
(* the default of the parameter                                            *)
SongviewResults ==
    {PyNone, List(<<>>),
     List(<<[writers |-> "Doe John", publishers |-> "-"]>>),
     List(<<[writers |-> "Doe John", publishers |-> "Test Pub"],
            [writers |-> "Doe John", publishers |-> ""]>>),
     List(<<[writers |-> "Doe John", publishers |-> "-"],
            [writers |-> "Smith Jane", publishers |-> "Test Pub"]>>)}

(* the set a loop over the rows collects of one field *)
Found(rows, f) ==
    {rows[k][f] : k \in {j \in DOMAIN rows : rows[j][f] # "" /\ rows[j][f] # "-"}}

(* score -= issue.deduction, issue after issue *)
RECURSIVE Deduct(_, _)
Deduct(score, issues) ==
    IF issues = <<>> THEN score
    ELSE Deduct(score - issues[1].deduction, Tail(issues))

(* base_revenue * revenue_impact, summed over the issues *)
RECURSIVE RevenueLoss(_)
RevenueLoss(issues) ==
    IF issues = <<>> THEN 0
    ELSE (500 * ISSUE_DEFINITIONS[issues[1].code].revenue_impact) \div 100
         + RevenueLoss(Tail(issues))

OfSeverity(issues, sev) ==
    SelectSeq(issues, LAMBDA i : i.severity = sev)

(* issues.sort by severity_order: a stable sort *)
SortBySeverity(issues) ==
    OfSeverity(issues, "critical") \o OfSeverity(issues, "high")
    \o OfSeverity(issues, "medium") \o OfSeverity(issues, "low")

Grade(score) ==
    IF score >= 90 THEN "A"
    ELSE IF score >= 75 THEN "B"
    ELSE IF score >= 60 THEN "C"
    ELSE IF score >= 40 THEN "D"
    ELSE "F"

MaxInt(a, b) ==
    IF a >= b THEN a ELSE b

MinInt(a, b) ==
    IF a <= b THEN a ELSE b

calculate_metadata_score(song, cross_check, songview) ==
    LET given == cross_check.kind # "None"
        has_iswc == song.iswc # "" \/ (given /\ cross_check.found_iswcs # <<>>)
        has_isrc == song.isrc # "" \/ (given /\ cross_check.found_isrcs # <<>>)
        artist_lower == lower(song.artist)
        mismatches ==
            IF given
            THEN SelectSeq(cross_check.found_artists, LAMBDA a : lower(a) # artist_lower)
            ELSE <<>>
        sources_cross ==
            IF given /\ cross_check.musicbrainz.present
                     /\ (cross_check.musicbrainz.found \/ ~cross_check.musicbrainz.error)
            THEN <<"musicbrainz">> ELSE <<>>
        issues_cross ==
            IF given
            THEN (IF cross_check.title_variations # <<>>
                  THEN <<create_issue("TITLE_MISMATCH")>> ELSE <<>>)
                 \o (IF song.artist # "" /\ cross_check.found_artists # <<>> /\ mismatches # <<>>
                     THEN <<create_issue("ARTIST_NAME_INCONSISTENT")>> ELSE <<>>)
            ELSE <<>>
        \* `if songview_results:` and, inside it, `if not songview_results:`
        looked == Truthy(songview)
        unregistered == looked /\ ~Truthy(songview)
        issues_songview ==
            IF ~looked THEN <<>>
            ELSE IF unregistered THEN <<create_issue("MISSING_PRO_REGISTRATION")>>
            ELSE IF Cardinality(Found(songview.rows, "writers")) > 1
            THEN <<create_issue("CONFLICTING_SPLITS")>>
            ELSE <<>>
        has_publisher ==
            song.publisher # ""
            \/ (looked /\ ~unregistered /\ Found(songview.rows, "publishers") # {})
        issues_core ==
            (IF ~has_iswc THEN <<create_issue("MISSING_ISWC")>> ELSE <<>>)
            \o (IF ~has_isrc THEN <<create_issue("MISSING_ISRC")>> ELSE <<>>)
            \o (IF ~has_publisher THEN <<create_issue("MISSING_PUBLISHER")>> ELSE <<>>)
            \o (IF has_isrc /\ has_iswc /\ given /\ cross_check.musicbrainz.recordings # <<>>
                THEN <<create_issue("RECORDING_NOT_LINKED")>> ELSE <<>>)
        issues == issues_cross \o issues_songview \o issues_core
        score == MaxInt(0, MinInt(100, Deduct(100, issues)))
        sorted == SortBySeverity(issues)
    IN  [score |-> score,
         grade |-> Grade(score),
         issues |-> sorted,
         estimated_lost_revenue |-> RevenueLoss(issues),
         territories_affected |->
             (IF unregistered THEN {"US", "CA"} ELSE {})
             \cup (IF ~has_iswc THEN {"US", "EU", "UK", "CA", "AU"} ELSE {}),
         priority_fixes |-> [k \in 1..MinInt(3, Len(sorted)) |-> sorted[k].code],
         data_sources_checked |-> sources_cross \o (IF looked THEN <<"songview">> ELSE <<>>)]

(* everything the score handler never touches *)
score_frame ==
    <<script, morph_vars, scraper_vars, anim_vars, batch_vars, index_vars>>

InitScore ==
    /\ script = "metadata_score"
    /\ pc = "start"
    /\ song_data \in SongData
    /\ cross_check_results = "none"
    /\ songview_results = "none"
    /\ result = NoValue
    /\ raised = "none"
    /\ MorphIdle
    /\ ScraperIdle
    /\ AnimIdle
    /\ BatchIdle
    /\ IndexIdle

(* score_single_song up to the call: the cross-check, if asked for, and    *)
(* the Songview search                                                     *)
score_lookup ==
    /\ script = "metadata_score"
    /\ pc = "start"
    /\ cross_check_results' \in CrossCheckResults
    /\ songview_results' \in SongviewResults
    /\ pc' = "score"
    /\ UNCHANGED <<score_frame, song_data, result, raised>>

score_calculate ==
    /\ script = "metadata_score"
    /\ pc = "score"
    /\ result' = calculate_metadata_score(song_data, cross_check_results, songview_results)
    /\ pc' = "done"
    /\ UNCHANGED <<score_frame, score_vars, raised>>

NextScore ==
    \/ score_lookup
    \/ score_calculate

SpecScore ==
    InitScore /\ [][NextScore]_vars

(***************************************************************************)
(* C23: the score is an integer in 0..100 and equals 100 minus the sum of  *)
(* the deductions of the reported issues (missing ISWC 25, title mismatch  *)
(* 10, conflicting writer shares 20, recording not linked 15, no publisher *)
(* 15, any other issue its defined deduction), floored at 0, and no issue  *)
(* code is reported twice                                                  *)
(***************************************************************************)
StatedDeduction(code) ==
    CASE code = "MISSING_ISWC" -> 25
      [] code = "TITLE_MISMATCH" -> 10
      [] code = "CONFLICTING_SPLITS" -> 20
      [] code = "RECORDING_NOT_LINKED" -> 15
      [] code = "MISSING_PUBLISHER" -> 15
      [] OTHER -> ISSUE_DEFINITIONS[code].deduction

RECURSIVE StatedSum(_)
StatedSum(issues) ==
    IF issues = <<>> THEN 0
    ELSE StatedDeduction(issues[1].code) + StatedSum(Tail(issues))

Scored ==
    script = "metadata_score" /\ pc = "done"

C23_ScoreIsHundredMinusDeductions ==
    Scored =>
        /\ result.score \in 0..100
        /\ result.score = MaxInt(0, 100 - StatedSum(result.issues))
        /\ \A i, j \in DOMAIN result.issues :
               result.issues[i].code = result.issues[j].code => i = j

C23_Witness ==
    /\ Scored
    /\ Len(result.issues) >= 4
    /\ \E i \in DOMAIN result.issues : result.issues[i].code = "RECORDING_NOT_LINKED"
    /\ \E i \in DOMAIN result.issues : result.issues[i].code = "CONFLICTING_SPLITS"

(***************************************************************************)
(* C26: when a Songview lookup was performed and returned no results, the  *)
(* score result reports MISSING_PRO_REGISTRATION with deduction 25 and     *)
(* has US and CA among the affected territories                            *)
(***************************************************************************)
C26_EmptyLookupReportsMissingPro ==
    (Scored /\ songview_results = List(<<>>)) =>
        /\ \E i \in DOMAIN result.issues :
               /\ result.issues[i].code = "MISSING_PRO_REGISTRATION"
               /\ result.issues[i].deduction = 25
        /\ {"US", "CA"} \subseteq result.territories_affected

(***************************************************************************)
(* The animation pipeline: pipeline/process_animation.py and               *)
(* clean_locomotion_animations.py                                          *)
(***************************************************************************)
(* an fcurve: the bone and property of its data path                       *)
(* pose.bones["<bone>"].<prop> (bone "" for a path of the object itself,   *)
(* which is the bare property name), its array_index and the values co[1]  *)
(* of its keyframe_points                                                  *)
FCurve(bone, prop, index, values) ==
    [bone |-> bone, prop |-> prop, array_index |-> index, keyframe_points |-> values]

(* the bone names in use whose data path contains the pattern 'Hips' *)
HipsMatching ==
    {"mixamorig:Hips", "Hips", "HipsTwist"}

(* any(pattern in data_path for pattern in hips_patterns) *)
is_hips(fcurve) ==
    fcurve.bone \in HipsMatching

(* '.<prop>' in data_path: the path of a bone property holds the dot, the  *)
(* path of an object property does not                                     *)
HasDotted(fcurve, prop) ==
    fcurve.bone # "" /\ fcurve.prop = prop

(* '<prop>' in data_path *)
HasProp(fcurve, prop) ==
    fcurve.prop = prop

(* the rotation samples of two keyframes, as quaternions (w, x, y, z) *)
QuatSamples ==
    <<<<One, Zero, Zero, Zero>>, <<R(3, 5), R(4, 5), Zero, Zero>>>>

(* the curves an importer bakes for one bone: location, rotation and,      *)
(* if asked, scale, with nkeys keyframes each                              *)
BoneCurves(bone, nkeys, with_scale) ==
    [i \in 1..3 |-> FCurve(bone, "location", i - 1, [k \in 1..nkeys |-> R(k + i, 1)])]
    \o [i \in 1..4 |-> FCurve(bone, "rotation_quaternion", i - 1,
                              [k \in 1..nkeys |-> QuatSamples[k][i]])]
    \o (IF with_scale
        THEN [i \in 1..3 |-> FCurve(bone, "scale", i - 1, [k \in 1..nkeys |-> One])]
        ELSE <<>>)

AnimFile(fcurves) ==
    [armature |-> TRUE, has_action |-> TRUE, fcurves |-> fcurves]

(* the files the scripts are run on *)
AnimFiles ==
    {[armature |-> FALSE, has_action |-> FALSE, fcurves |-> <<>>],
     [armature |-> TRUE, has_action |-> FALSE, fcurves |-> <<>>],
     \* a Mixamo export: Hips and Spine, every track baked
     AnimFile(BoneCurves("mixamorig:Hips", 2, TRUE) \o BoneCurves("mixamorig:Spine", 2, TRUE)),
     \* no scale tracks
     AnimFile(BoneCurves("mixamorig:Hips", 1, FALSE) \o BoneCurves("mixamorig:Spine", 1, FALSE)),
     \* Hips with three of its four quaternion channels
     AnimFile(SubSeq(BoneCurves("Hips", 2, TRUE), 1, 6)),
     \* a rig with a twist bone under the hips
     AnimFile(BoneCurves("Hips", 1, TRUE) \o BoneCurves("HipsTwist", 1, TRUE)),
     \* the W channel holds a keyframe the other channels lack
     AnimFile(<<FCurve("Hips", "rotation_quaternion", 0, <<One, R(3, 5)>>),
                FCurve("Hips", "rotation_quaternion", 1, <<Zero>>),
                FCurve("Hips", "rotation_quaternion", 2, <<Zero>>),
                FCurve("Hips", "rotation_quaternion", 3, <<Zero>>)>>),
     \* the W channel lacks a keyframe the other channels hold
     AnimFile(<<FCurve("Hips", "rotation_quaternion", 0, <<One>>),
                FCurve("Hips", "rotation_quaternion", 1, <<Zero, R(4, 5)>>),
                FCurve("Hips", "rotation_quaternion", 2, <<Zero, Zero>>),
                FCurve("Hips", "rotation_quaternion", 3, <<Zero, Zero>>)>>),
     \* tracks of the object itself and an Euler rotation
     AnimFile(<<FCurve("", "location", 0, <<One>>), FCurve("", "scale", 0, <<One>>),
                FCurve("mixamorig:Spine", "rotation_euler", 0, <<Zero>>)>>
              \o BoneCurves("mixamorig:Hips", 1, TRUE))}

(* --y-correction, in degrees *)
Corrections ==
    {Zero, R(1, 20), R(180, 1), R(360, 1)}

AnimArgs ==
    [y_correction : Corrections, preserve_hips_position : BOOLEAN]

(* Euler((0, radians(deg), 0), 'XYZ').to_quaternion() is                   *)
(* (cos(deg/2), 0, sin(deg/2), 0); the angles in use have exact values     *)
CorrectionQuat(deg) ==
    CASE deg = R(180, 1) -> <<Zero, Zero, One, Zero>>
      [] deg = R(360, 1) -> <<RNeg(One), Zero, Zero, Zero>>
      [] OTHER -> <<One, Zero, Zero, Zero>>

(* a @ b of two mathutils Quaternions: the Hamilton product *)
QuatMul(a, b) ==
    <<RSub(RSub(RSub(RMul(a[1], b[1]), RMul(a[2], b[2])), RMul(a[3], b[3])), RMul(a[4], b[4])),
      RSub(RAdd(RAdd(RMul(a[1], b[2]), RMul(a[2], b[1])), RMul(a[3], b[4])), RMul(a[4], b[3])),
      RAdd(RAdd(RSub(RMul(a[1], b[3]), RMul(a[2], b[4])), RMul(a[3], b[1])), RMul(a[4], b[2])),
      RAdd(RSub(RAdd(RMul(a[1], b[4]), RMul(a[2], b[3])), RMul(a[3], b[2])), RMul(a[4], b[1]))>>

(* one dict of find_hips_fcurves: array_index -> position in action.fcurves *)
(* of the Hips curve of that kind; a later curve with the same array_index *)
(* replaces an earlier one                                                 *)
HipsCurves(fcurves, prop) ==
    LET hits == {k \in DOMAIN fcurves : is_hips(fcurves[k]) /\ HasDotted(fcurves[k], prop)}
    IN  [i \in {fcurves[k].array_index : k \in hits} |->
            CHOOSE k \in hits :
                /\ fcurves[k].array_index = i
                /\ \A m \in hits : fcurves[m].array_index = i => m <= k]

find_hips_fcurves(fcurves) ==
    [position |-> HipsCurves(fcurves, "location"),
     rotation |-> HipsCurves(fcurves, "rotation_quaternion"),
     scale |-> HipsCurves(fcurves, "scale")]

Values(f) ==
    {f[i] : i \in DOMAIN f}

(* the sequence without the elements at the positions in drop *)
RECURSIVE Without(_, _, _)
Without(seq, drop, k) ==
    IF k > Len(seq) THEN <<>>
    ELSE (IF k \in drop THEN <<>> ELSE <<seq[k]>>) \o Without(seq, drop, k + 1)

SeqMin(S) ==
    CHOOSE x \in S : \A y \in S : x <= y

(* apply_y_correction: the fcurves afterwards and the exception raised;    *)
(* the loop runs over the keyframes of the W channel and fails with        *)
(* IndexError at the first keyframe another channel does not have, the     *)
(* keyframes before it rewritten                                           *)
apply_y_correction(fcurves, correction_deg) ==
    LET quat_curves == find_hips_fcurves(fcurves).rotation
        correction_quat == CorrectionQuat(correction_deg)
    IN  IF RLt(RAbs(correction_deg), R(1, 10))
        THEN [fcurves |-> fcurves, exception |-> "none"]
        ELSE IF Cardinality(DOMAIN quat_curves) # 4
        THEN [fcurves |-> fcurves, exception |-> "none"]
        ELSE LET num_keyframes == Len(fcurves[quat_curves[0]].keyframe_points)
                 reached == SeqMin({Len(fcurves[quat_curves[c]].keyframe_points) : c \in 0..3}
                                   \cup {num_keyframes})
                 corrected(i) ==
                     QuatMul(correction_quat,
                             [c \in 1..4 |-> fcurves[quat_curves[c - 1]].keyframe_points[i]])
                 rewritten(k) ==
                     LET c == fcurves[k].array_index
                     IN  [fcurves[k] EXCEPT !.keyframe_points =
                             [i \in DOMAIN fcurves[k].keyframe_points |->
                                 IF i <= reached THEN corrected(i)[c + 1]
                                 ELSE fcurves[k].keyframe_points[i]]]
             IN  [fcurves |-> [k \in DOMAIN fcurves |->
                                  IF k \in Values(quat_curves) THEN rewritten(k)
                                  ELSE fcurves[k]],
                  exception |-> IF reached < num_keyframes THEN "IndexError" ELSE "none"]

(* strip_tracks: the fcurves afterwards *)
strip_tracks(fcurves, preserve_hips_position) ==
    LET hips_fcurves == find_hips_fcurves(fcurves)
        fcurves_to_remove ==
            (IF ~preserve_hips_position THEN Values(hips_fcurves.position) ELSE {})
            \cup {k \in DOMAIN fcurves : HasDotted(fcurves[k], "scale")}
    IN  Without(fcurves, fcurves_to_remove, 1)

(* a cleaning that removes the location and scale tracks only *)
clean_curves_by_name(fcurves) ==
    Without(fcurves, {k \in DOMAIN fcurves :
                         HasProp(fcurves[k], "location") \/ HasProp(fcurves[k], "scale")}, 1)

(* clean_animation: the fcurves afterwards *)
clean_curves(fcurves) ==
    Without(fcurves, {k \in DOMAIN fcurves : ~HasProp(fcurves[k], "rotation_quaternion")}, 1)

(* everything the animation scripts never touch *)
anim_frame ==
    <<morph_vars, scraper_vars, score_vars, batch_vars, index_vars>>

InitAnim ==
    /\ script \in {"process_animation", "clean_locomotion_animations"}
    /\ pc = "import"
    /\ anim_file \in AnimFiles
    /\ args \in IF script = "process_animation" THEN AnimArgs ELSE {"none"}
    /\ action = <<>>
    /\ exported = "none"
    /\ result = "none"
    /\ raised = "none"
    /\ MorphIdle
    /\ ScraperIdle
    /\ ScoreIdle
    /\ BatchIdle
    /\ IndexIdle

(* main up to the action: import, find the armature, take its action *)
anim_import ==
    /\ script = "process_animation"
    /\ pc = "import"
    /\ IF anim_file.armature /\ anim_file.has_action
       THEN /\ action' = anim_file.fcurves
            /\ pc' = "correct"
       ELSE /\ action' = action
            /\ pc' = "done"
    /\ UNCHANGED <<script, anim_frame, args, anim_file, exported, result, raised>>

anim_apply_y_correction ==
    /\ script = "process_animation"
    /\ pc = "correct"
    /\ LET r == apply_y_correction(action, args.y_correction)
       IN  /\ action' = r.fcurves
           /\ raised' = r.exception
           /\ pc' = IF r.exception = "none" THEN "strip" ELSE "done"
    /\ UNCHANGED <<script, anim_frame, args, anim_file, exported, result>>

anim_strip_tracks ==
    /\ script = "process_animation"
    /\ pc = "strip"
    /\ action' = strip_tracks(action, args.preserve_hips_position)
    /\ pc' = "export"
    /\ UNCHANGED <<script, anim_frame, args, anim_file, exported, result, raised>>

anim_export ==
    /\ script = "process_animation"
    /\ pc = "export"
    /\ exported' = action
    /\ pc' = "done"
    /\ UNCHANGED <<script, anim_frame, args, anim_file, action, result, raised>>

(* clean_animation(filepath): the export overwrites the file *)
clean_animation ==
    /\ script = "clean_locomotion_animations"
    /\ pc = "import"
    /\ IF anim_file.armature /\ anim_file.has_action
       THEN /\ action' = clean_curves(anim_file.fcurves)
            /\ exported' = action'
            /\ anim_file' = [anim_file EXCEPT !.fcurves = action']
            /\ result' = "True"
       ELSE /\ UNCHANGED <<action, exported, anim_file>>
            /\ result' = "False"
    /\ pc' = "done"
    /\ UNCHANGED <<script, anim_frame, args, raised>>

NextAnim ==
    \/ anim_import
    \/ anim_apply_y_correction
    \/ anim_strip_tracks
    \/ anim_export
    \/ clean_animation

SpecAnim ==
    InitAnim /\ [][NextAnim]_vars

(***************************************************************************)
(* C24: after strip_tracks(action, preserve_hips_position = p) the action  *)
(* holds no curve whose data path contains '.scale', holds the Hips        *)
(* location curves if and only if p, and every other curve (rotation       *)
(* curves, location curves of other bones) is as it was                    *)
(***************************************************************************)
IsHipsLocation(fcurve) ==
    is_hips(fcurve) /\ HasDotted(fcurve, "location")

HipsLocations(fcurves) ==
    SelectSeq(fcurves, IsHipsLocation)

OtherCurves(fcurves) ==
    SelectSeq(fcurves, LAMBDA c : ~IsHipsLocation(c) /\ ~HasDotted(c, "scale"))

C24_StripTracksFrame ==
    [][anim_strip_tracks =>
        /\ \A k \in DOMAIN action' : ~HasDotted(action'[k], "scale")
        /\ HipsLocations(action') =
               IF args.preserve_hips_position THEN HipsLocations(action) ELSE <<>>
        /\ OtherCurves(action') = OtherCurves(action)]_vars

HipsQuaternions(fcurves) ==
    {k \in DOMAIN fcurves : is_hips(fcurves[k]) /\ HasDotted(fcurves[k], "rotation_quaternion")}

Channel(fcurves, c) ==
    CHOOSE k \in HipsQuaternions(fcurves) : fcurves[k].array_index = c

C27_YCorrectionFrame ==
    [][anim_apply_y_correction =>
        /\ raised' = "none"
        /\ Len(action') = Len(action)
        /\ \A k \in DOMAIN action :
               /\ action'[k].bone = action[k].bone
               /\ action'[k].prop = action[k].prop
               /\ action'[k].array_index = action[k].array_index
               /\ Len(action'[k].keyframe_points) = Len(action[k].keyframe_points)
        /\ IF RLt(RAbs(args.y_correction), R(1, 10))
              \/ Cardinality(HipsQuaternions(action)) # 4
           THEN action' = action
           ELSE \A k \in DOMAIN action :
                   IF k \in HipsQuaternions(action)
                   THEN \A i \in DOMAIN action[k].keyframe_points :
                           /\ \A c \in 0..3 :
                                  i \in DOMAIN action[Channel(action, c)].keyframe_points
                           /\ action'[k].keyframe_points[i] =
                                  QuatMul(CorrectionQuat(args.y_correction),
                                          [c \in 1..4 |->
                                              action[Channel(action, c - 1)].keyframe_points[i]])
                                      [action[k].array_index + 1]
                   ELSE action'[k] = action[k]]_vars

(***************************************************************************)
(* The animation pipeline: pipeline/batch_process.py, main                 *)
(***************************************************************************)
(* a file name or key is the sequence of its characters                    *)
ANIMATION_CORRECTIONS ==
    {[key |-> <<"i", "d", "l", "e">>, correction |-> 0],
     [key |-> <<"w", "a", "l", "k", "i", "n", "g">>, correction |-> 0],
     [key |-> <<"r", "u", "n", "n", "i", "n", "g">>, correction |-> 0],
     [key |-> <<"j", "u", "m", "p">>, correction |-> 0],
     [key |-> <<"r", "i", "f", "l", "e", "_", "a", "i", "m", "_", "i", "d", "l", "e">>, correction |-> 0 - 57],
     [key |-> <<"r", "i", "f", "l", "e", "_", "a", "i", "m", "_", "w", "a", "l", "k">>, correction |-> 0 - 57]}

PRESERVE_HIPS_POSITION ==
    {<<"c", "r", "o", "u", "c", "h", "_", "i", "d", "l", "e">>,
     <<"c", "r", "o", "u", "c", "h", "_", "w", "a", "l", "k">>,
     <<"c", "r", "o", "u", "c", "h", "_", "s", "t", "r", "a", "f", "e", "_", "l", "e", "f", "t">>,
     <<"c", "r", "o", "u", "c", "h", "_", "s", "t", "r", "a", "f", "e", "_", "r", "i", "g", "h", "t">>,
     <<"c", "r", "o", "u", "c", "h", "_", "r", "i", "f", "l", "e", "_", "i", "d", "l", "e">>,
     <<"c", "r", "o", "u", "c", "h", "_", "r", "i", "f", "l", "e", "_", "w", "a", "l", "k">>,
     <<"c", "r", "o", "u", "c", "h", "_", "p", "i", "s", "t", "o", "l", "_", "i", "d", "l", "e">>,
     <<"c", "r", "o", "u", "c", "h", "_", "p", "i", "s", "t", "o", "l", "_", "w", "a", "l", "k">>,
     <<"s", "t", "a", "n", "d", "_", "t", "o", "_", "c", "r", "o", "u", "c", "h">>,
     <<"c", "r", "o", "u", "c", "h", "_", "t", "o", "_", "s", "t", "a", "n", "d">>,
     <<"c", "r", "o", "u", "c", "h", "_", "t", "o", "_", "s", "p", "r", "i", "n", "t">>}

(* the files that may lie in RAW_DIR *)
RawFileNames ==
    {<<"I", "d", "l", "e", ".", "f", "b", "x">>,
     <<"i", "d", "l", "e", ".", "g", "l", "b">>,
     <<"c", "r", "o", "u", "c", "h", "-", "i", "d", "l", "e", ".", "f", "b", "x">>,
     <<"c", "r", "o", "u", "c", "h", " ", "i", "d", "l", "e", ".", "f", "b", "x">>,
     <<"j", "u", "m", "p", ".", "f", "b", "x">>,
     <<"j", "u", "m", "p", ".", "t", "x", "t">>}

(* the characters in use and their code points *)
CodePoints ==
    {<<" ", 32>>,
     <<"-", 45>>,
     <<".", 46>>,
     <<"I", 73>>,
     <<"_", 95>>,
     <<"a", 97>>,
     <<"b", 98>>,
     <<"c", 99>>,
     <<"d", 100>>,
     <<"e", 101>>,
     <<"f", 102>>,
     <<"g", 103>>,
     <<"h", 104>>,
     <<"i", 105>>,
     <<"j", 106>>,
     <<"k", 107>>,
     <<"l", 108>>,
     <<"m", 109>>,
     <<"n", 110>>,
     <<"o", 111>>,
     <<"p", 112>>,
     <<"r", 114>>,
     <<"s", 115>>,
     <<"t", 116>>,
     <<"u", 117>>,
     <<"w", 119>>,
     <<"x", 120>>}

ord(c) ==
    (CHOOSE e \in CodePoints : e[1] = c)[2]

(* str.lower on one character *)
lower_char(c) ==
    CASE c = "I" -> "i"
      [] OTHER -> c

(* the position of the last '.', 0 if there is none *)
LastDot(name) ==
    IF \E k \in DOMAIN name : name[k] = "."
    THEN CHOOSE k \in DOMAIN name : name[k] = "." /\ \A m \in DOMAIN name : name[m] = "." => m <= k
    ELSE 0

(* Path(name).stem and Path(name).suffix, for names that do not start with a dot *)
stem(name) ==
    IF LastDot(name) > 1 THEN SubSeq(name, 1, LastDot(name) - 1) ELSE name

suffix(name) ==
    IF LastDot(name) > 1 THEN SubSeq(name, LastDot(name), Len(name)) ELSE <<>>

(* stem.lower().replace('-', '_').replace(' ', '_') *)
snake(name) ==
    [k \in DOMAIN stem(name) |->
        LET c == lower_char(stem(name)[k])
        IN  IF c = "-" \/ c = " " THEN "_" ELSE c]

get_anim_key(filename) ==
    snake(filename)

output_name(filename) ==
    snake(filename) \o <<".", "g", "l", "b">>

(* the order of str: a < b *)
RECURSIVE StrLess(_, _)
StrLess(a, b) ==
    IF b = <<>> THEN FALSE
    ELSE IF a = <<>> THEN TRUE
    ELSE IF a[1] # b[1] THEN ord(a[1]) < ord(b[1])
    ELSE StrLess(Tail(a), Tail(b))

(* sorted(S) *)
RECURSIVE Sorted(_)
Sorted(S) ==
    IF S = {} THEN <<>>
    ELSE LET least == CHOOSE x \in S : \A y \in S \ {x} : StrLess(x, y)
         IN  <<least>> \o Sorted(S \ {least})

(* RAW_DIR.glob("*.fbx") + RAW_DIR.glob("*.glb") *)
Globbed(names) ==
    {n \in names : suffix(n) = <<".", "f", "b", "x">> \/ suffix(n) = <<".", "g", "l", "b">>}

Correction(key) ==
    IF \E e \in ANIMATION_CORRECTIONS : e.key = key
    THEN (CHOOSE e \in ANIMATION_CORRECTIONS : e.key = key).correction
    ELSE 0

(* everything the batch never touches *)
batch_frame ==
    <<script, morph_vars, scraper_vars, score_vars, anim_vars, index_vars>>

InitBatch ==
    /\ script = "batch_process"
    /\ pc = "start"
    /\ raw_dir \in {[exists |-> FALSE, names |-> {}]}
                   \cup [exists : {TRUE}, names : SUBSET RawFileNames]
    /\ input_files = <<>>
    /\ exports = <<>>
    /\ result = [success |-> 0, failed |-> 0]
    /\ raised = "none"
    /\ MorphIdle
    /\ ScraperIdle
    /\ ScoreIdle
    /\ AnimIdle
    /\ IndexIdle

(* main up to the loop: create the raw directory, or list and sort it *)
batch_find ==
    /\ script = "batch_process"
    /\ pc = "start"
    /\ IF ~raw_dir.exists
       THEN /\ raw_dir' = [exists |-> TRUE, names |-> {}]
            /\ input_files' = input_files
            /\ pc' = "done"
       ELSE /\ raw_dir' = raw_dir
            /\ input_files' = Sorted(Globbed(raw_dir.names))
            /\ pc' = IF Globbed(raw_dir.names) = {} THEN "done" ELSE "loop"
    /\ UNCHANGED <<batch_frame, exports, result, raised>>

(* one turn of the loop: process_animation exports the file unless it has  *)
(* no armature or no animation data                                        *)
batch_process_one ==
    /\ script = "batch_process"
    /\ pc = "loop"
    /\ input_files # <<>>
    /\ LET input_path == Head(input_files)
           anim_key == get_anim_key(input_path)
       IN  \E processed \in BOOLEAN :
               IF processed
               THEN /\ exports' = Append(exports,
                                    [input |-> input_path,
                                     output |-> output_name(input_path),
                                     correction |-> Correction(anim_key),
                                     preserve_hips |-> anim_key \in PRESERVE_HIPS_POSITION])
                    /\ result' = [result EXCEPT !.success = @ + 1]
               ELSE /\ exports' = exports
                    /\ result' = [result EXCEPT !.failed = @ + 1]
    /\ input_files' = Tail(input_files)
    /\ UNCHANGED <<batch_frame, raw_dir, pc, raised>>

(* the summary after the loop *)
batch_summary ==
    /\ script = "batch_process"
    /\ pc = "loop"
    /\ input_files = <<>>
    /\ pc' = "done"
    /\ UNCHANGED <<batch_frame, batch_vars, result, raised>>

NextBatch ==
    \/ batch_find
    \/ batch_process_one
    \/ batch_summary

SpecBatch ==
    InitBatch /\ [][NextBatch]_vars

(***************************************************************************)
(* C29: in one run of main, every input file found in the raw directory    *)
(* is exported, and to an output path that no other input file of the run  *)
(* is exported to                                                          *)
(***************************************************************************)
C29_DistinctOutputPaths ==
    (script = "batch_process" /\ pc = "done") =>
        /\ \A f \in Globbed(raw_dir.names) : \E k \in DOMAIN exports : exports[k].input = f
        /\ \A j, k \in DOMAIN exports :
               exports[j].output = exports[k].output => exports[j].input = exports[k].input

(***************************************************************************)
(* musicscrap: blueprints/main.py, the search handler index                *)
(***************************************************************************)
MaxClock ==
    4

MaxSearches ==
    3

(* cache.set(..., timeout=3600): one hour, in units of half an hour *)
CacheTimeout ==
    2

(* the validated, stripped and escaped form fields *)
SearchTitles ==
    {"Test Song"}

SearchPerformers ==
    {"", "Test Performer"}

(* what scraper.scrape_music_data gives the handler: a DataFrame, empty or *)
(* not, or an exception                                                    *)
ScrapeOutcomes ==
    {[exception |-> "none", df |-> DataFrame("ASCAP", <<"Test Song">>)],
     [exception |-> "none", df |-> DataFrame("BMI", <<"Test Song", "Test Song Two">>)],
     [exception |-> "none", df |-> EmptyDataFrame],
     [exception |-> "ScrapingError", df |-> EmptyDataFrame],
     [exception |-> "Exception", df |-> EmptyDataFrame]}

(* the string f"{title}|{performer}" that is hashed into the cache key *)
cache_key(title, performer) ==
    <<title, "|", performer>>

(* cache.get(key): None for a key never set or whose timeout has passed *)
cache_get(key) ==
    IF key \in DOMAIN cache /\ now < cache[key].expires
    THEN cache[key].value
    ELSE PyNone

(* results_df.to_dict('records') *)
to_dict(df) ==
    List(df.rows)

SearchHistory(title, performer, count, cached) ==
    [title |-> title, performer |-> performer, results_count |-> count, cached |-> cached]

(* everything the handler never touches *)
index_frame ==
    <<script, morph_vars, scraper_vars, score_vars, anim_vars, batch_vars>>

InitIndex ==
    /\ script = "index"
    /\ pc = "serve"
    /\ cache = <<>>
    /\ search_history = <<>>
    /\ now = 0
    /\ scrapes = 0
    /\ result = [page |-> "none"]
    /\ raised = "none"
    /\ MorphIdle
    /\ ScraperIdle
    /\ ScoreIdle
    /\ AnimIdle
    /\ BatchIdle

(* one POST of a valid form, from the cache lookup to the response *)
index_post ==
    /\ script = "index"
    /\ Len(search_history) < MaxSearches
    /\ scrapes < MaxSearches
    /\ \E title \in SearchTitles, performer \in SearchPerformers, outcome \in ScrapeOutcomes :
         LET key == cache_key(title, performer)
             cached_results == cache_get(key)
         IN  IF Truthy(cached_results)
             THEN /\ search_history' = Append(search_history,
                        SearchHistory(title, performer, Len(cached_results.rows), TRUE))
                  /\ result' = [page |-> "results", title |-> title, performer |-> performer,
                                results |-> cached_results, cached |-> TRUE]
                  /\ UNCHANGED <<cache, scrapes>>
             ELSE /\ scrapes' = scrapes + 1
                  /\ IF outcome.exception # "none"
                     THEN /\ result' = [page |-> "index", title |-> title,
                                        performer |-> performer,
                                        flash |-> IF outcome.exception = "ScrapingError"
                                                  THEN "Scraping error"
                                                  ELSE "An unexpected error occurred"]
                          /\ UNCHANGED <<cache, search_history>>
                     ELSE IF outcome.df.rows = <<>>
                     THEN /\ result' = [page |-> "redirect", title |-> title,
                                        performer |-> performer,
                                        flash |-> "No results found"]
                          /\ UNCHANGED <<cache, search_history>>
                     ELSE /\ search_history' = Append(search_history,
                                SearchHistory(title, performer, Len(outcome.df.rows), FALSE))
                          /\ cache' = [k \in DOMAIN cache \cup {key} |->
                                          IF k = key
                                          THEN [value |-> to_dict(outcome.df),
                                                expires |-> now + CacheTimeout]
                                          ELSE cache[k]]
                          /\ result' = [page |-> "results", title |-> title,
                                        performer |-> performer,
                                        results |-> to_dict(outcome.df), cached |-> FALSE]
    /\ UNCHANGED <<index_frame, pc, now, raised>>

(* time passes between two requests *)
index_tick ==
    /\ script = "index"
    /\ now < MaxClock
    /\ now' = now + 1
    /\ UNCHANGED <<index_frame, pc, cache, search_history, scrapes, result, raised>>

NextIndex ==
    \/ index_post
    \/ index_tick

SpecIndex ==
    InitIndex /\ [][NextIndex]_vars

(***************************************************************************)
(* C30: a search for a (title, performer) pair that an earlier search      *)
(* answered with results is served from the cache, with the same results   *)
(* and without invoking the scraper; a search that ends with no results or *)
(* with an error stores nothing in the cache                               *)
(***************************************************************************)
AnsweredBefore(title, performer) ==
    \E k \in DOMAIN search_history :
        /\ search_history[k].title = title
        /\ search_history[k].performer = performer
        /\ ~search_history[k].cached

AnswerCount(title, performer) ==
    LET hits == {k \in DOMAIN search_history :
                    /\ search_history[k].title = title
                    /\ search_history[k].performer = performer
                    /\ ~search_history[k].cached}
    IN  search_history[CHOOSE k \in hits : \A m \in hits : m <= k].results_count

====
